---- MODULE Spec2Model ----
(***************************************************************************)
(* Diet-tracking backend: the estimator response parser, the hybrid        *)
(* recognition policy, the recognition endpoints, the persistence of food  *)
(* logs and training samples, the lazy load of the local classifier and    *)
(* the training run that writes its checkpoint.                            *)
(*                                                                         *)
(* Numbers: the macros and the estimator confidences are Python floats in  *)
(* the source; here they are integers.  The local classifier's confidence  *)
(* (a float in [0,1]) is counted in hundredths, so the threshold 0.75 is   *)
(* 75.                                                                     *)
(*                                                                         *)
(* Text: an estimator response is a sequence of tokens.  A token is a      *)
(* whitespace run, a code fence (three backquotes), the word json, prose   *)
(* without braces, a stray opening or closing brace, or the text of one    *)
(* complete JSON value.  The regular expressions and json.loads of the     *)
(* source are computed on the tokens.                                      *)
(***************************************************************************)
EXTENDS Integers, Sequences, FiniteSets, TLC

\* ------------------------------------------------------------------ bounds

\* The longest food item list an estimator response or a manual entry holds.
MaxItems == 2
\* The longest token sequence drawn as an arbitrary estimator response.
MaxTextLen == 3
\* The most load_model calls one serving process is followed through.
MaxLoadCalls == 2
\* The most epochs a training run is asked for.
MaxEpochs == 4
\* The most images the custom dataset directory holds.
MaxImages == 2
\* The most rows of the training_dataset table an export reads.
MaxSamples == 2

\* ------------------------------------------------------- program constants

\* settings.custom_model_confidence_threshold (0.75), in hundredths.
custom_model_confidence_threshold == 75
\* The dataset feedback bar `ai_result.ai_confidence >= 80`.
DatasetConfidenceBar == 80
\* item.get("confidence", 50) and data.get("overall_confidence", 50).
DefaultConfidence == 50
\* Field(ge=0, le=100) of AIFoodItem.confidence and ai_confidence.
ConfidenceMin == 0
ConfidenceMax == 100
\* num_classes = 101 of train_model, and the default load_model reads.
num_classes == 101

\* The values of "num_classes" in the checkpoints at custom_model_path: a few
\* classes, the 101 train_model writes, one class more.
CheckpointClassCounts == {3, num_classes, num_classes + 1}

\* The label list of the local classifier, in the order of its output units.
FOOD101_CLASSES ==
    << "apple_pie", "baby_back_ribs", "baklava", "beef_carpaccio", "beef_tartare",
       "beet_salad", "beignets", "bibimbap", "bread_pudding", "breakfast_burrito",
       "bruschetta", "caesar_salad", "cannoli", "caprese_salad", "carrot_cake",
       "ceviche", "cheese_plate", "cheesecake", "chicken_curry", "chicken_quesadilla",
       "chicken_wings", "chocolate_cake", "chocolate_mousse", "churros", "clam_chowder",
       "club_sandwich", "crab_cakes", "creme_brulee", "croque_madame", "cup_cakes",
       "deviled_eggs", "donuts", "dumplings", "edamame", "eggs_benedict",
       "escargots", "falafel", "filet_mignon", "fish_and_chips", "foie_gras",
       "french_fries", "french_onion_soup", "french_toast", "fried_calamari", "fried_rice",
       "frozen_yogurt", "garlic_bread", "gnocchi", "greek_salad", "grilled_cheese_sandwich",
       "grilled_salmon", "guacamole", "gyoza", "hamburger", "hot_and_sour_soup",
       "hot_dog", "huevos_rancheros", "hummus", "ice_cream", "lasagna",
       "lobster_bisque", "lobster_roll_sandwich", "macaroni_and_cheese", "macarons", "miso_soup",
       "mussels", "nachos", "omelette", "onion_rings", "oysters",
       "pad_thai", "paella", "pancakes", "panna_cotta", "peking_duck",
       "pho", "pizza", "pork_chop", "poutine", "prime_rib",
       "pulled_pork_sandwich", "ramen", "ravioli", "red_velvet_cake", "risotto",
       "samosa", "sashimi", "scallops", "seaweed_salad", "shrimp_and_grits",
       "spaghetti_bolognese", "spaghetti_carbonara", "spring_rolls", "steak", "strawberry_shortcake",
       "sushi", "tacos", "takoyaki", "tiramisu", "tuna_tartare",
       "waffles" >>

\* ------------------------------------------------------------- JSON values

\* A JSON field as item.get(key) sees it: absent, null, a number, a string
\* holding a number ("12") or any other string.
Absent == [k |-> "absent", n |-> 0]
Null == [k |-> "null", n |-> 0]
Str == [k |-> "str", n |-> 0]
Num(n) == [k |-> "num", n |-> n]
NumStr(n) == [k |-> "numstr", n |-> n]

\* A JSON string field: absent, null or the string s.
NoName == [k |-> "absent", s |-> ""]
NullName == [k |-> "null", s |-> ""]
Name(s) == [k |-> "str", s |-> s]

JsonItem(name, serving, cal, pro, carb, fat, conf) ==
    [kind |-> "obj", food_name |-> name, serving_size |-> serving,
     calories |-> cal, protein |-> pro, carbs |-> carb, fat |-> fat,
     confidence |-> conf]

\* The two items of the "2 eggs and toast" scenario.
EggsJson == JsonItem(Name("Eggs"), Name("2 large"), Num(100), Num(8), Num(1), Num(7), Num(90))
ToastJson == JsonItem(Name("Toast"), NoName, Num(120), Num(3), Num(22), Num(2), Num(85))
\* An object with no field at all: {}.
BareJson == JsonItem(NoName, NoName, Absent, Absent, Absent, Absent, Absent)
\* An element of food_items that is no object (a number, a string).
ScalarItemJson == [BareJson EXCEPT !.kind = "scalar"]

\* The items an arbitrary estimator response is built from.
JsonItems ==
    { EggsJson, ToastJson, BareJson, ScalarItemJson,
      [EggsJson EXCEPT !.calories = Null],
      [EggsJson EXCEPT !.protein = Str],
      [ToastJson EXCEPT !.fat = NumStr(2)],
      [ToastJson EXCEPT !.confidence = Num(150)],
      [ToastJson EXCEPT !.food_name = NullName] }

SeqsUpTo(S, n) == UNION { [1..k -> S] : k \in 0..n }

\* The value of the key food_items of the response object.
ItemsAbsent == [k |-> "absent", items |-> <<>>]
ItemsNull == [k |-> "null", items |-> <<>>]
ItemsScalar == [k |-> "scalar", items |-> <<>>]
ItemsList(l) == [k |-> "list", items |-> l]

\* A parsed JSON document: an object with the two keys the parser reads, an
\* array without braces in it ([1, 2]) or a scalar (42, "text", null).
JsonObject(fi, oc) == [kind |-> "obj", food_items |-> fi, overall_confidence |-> oc]
JsonArray == [kind |-> "array", food_items |-> ItemsAbsent, overall_confidence |-> Absent]
JsonScalar == [kind |-> "scalar", food_items |-> ItemsAbsent, overall_confidence |-> Absent]

OverallConfidences ==
    { Absent, Null, Str, NumStr(70), Num(0), Num(79), Num(80), Num(90), Num(100),
      Num(101), Num(0 - 1) }

Docs ==
    { JsonObject(ItemsList(l), oc) : l \in SeqsUpTo(JsonItems, MaxItems), oc \in OverallConfidences }
    \cup { JsonObject(fi, oc) : fi \in {ItemsAbsent, ItemsNull, ItemsScalar}, oc \in OverallConfidences }
    \cup { JsonArray, JsonScalar }

\* ------------------------------------------------------------------- text

Tok(t) == [t |-> t, d |-> JsonScalar]
Value(d) == [t |-> "value", d |-> d]
WS == Tok("ws")
Fence == Tok("fence")
JsonTag == Tok("json")
Prose == Tok("prose")
LBrace == Tok("lbrace")
RBrace == Tok("rbrace")

Text(toks) == [is_none |-> FALSE, toks |-> toks]
\* message.content is None (a refusal, a tool call).
NoneText == [is_none |-> TRUE, toks |-> <<>>]

\* The "2 eggs and toast" response.
EggsAndToastDoc == JsonObject(ItemsList(<<EggsJson, ToastJson>>), Num(90))

\* ------------------------------------------------- openai_service._parse_response

RECURSIVE LStrip(_)
\* Leading whitespace removed (the front half of str.strip, the \s* of a regex).
LStrip(toks) ==
    IF toks # <<>> /\ Head(toks) = WS THEN LStrip(Tail(toks)) ELSE toks

RECURSIVE RStrip(_)
\* Trailing whitespace removed.
RStrip(toks) ==
    IF toks # <<>> /\ toks[Len(toks)] = WS
    THEN RStrip(SubSeq(toks, 1, Len(toks) - 1))
    ELSE toks

\* raw_text.strip()
Strip(toks) == RStrip(LStrip(toks))

\* re.sub(r"^```(?:json)?\s*", "", cleaned): an opening fence, the word json
\* right after it if there is one, and the whitespace that follows.
StripFenceOpen(toks) ==
    IF toks # <<>> /\ Head(toks) = Fence
    THEN LET rest == Tail(toks)
         IN  LStrip(IF rest # <<>> /\ Head(rest) = JsonTag THEN Tail(rest) ELSE rest)
    ELSE toks

\* re.sub(r"\s*```$", "", cleaned): a fence that ends the text and the
\* whitespace before it.
StripFenceClose(toks) ==
    IF toks # <<>> /\ toks[Len(toks)] = Fence
    THEN RStrip(SubSeq(toks, 1, Len(toks) - 1))
    ELSE toks

\* The text the parser hands to json.loads.
Cleaned(toks) == StripFenceClose(StripFenceOpen(Strip(toks)))

\* json.loads: the text is one JSON value, whitespace around it allowed.
JsonLoads(toks) ==
    LET s == Strip(toks)
    IN  IF Len(s) = 1 /\ s[1].t = "value"
        THEN [ok |-> TRUE, doc |-> s[1].d]
        ELSE [ok |-> FALSE, doc |-> JsonScalar]

\* The token holds an opening brace / a closing brace.
HasOpen(tok) == tok = LBrace \/ (tok.t = "value" /\ tok.d.kind = "obj")
HasClose(tok) == tok = RBrace \/ (tok.t = "value" /\ tok.d.kind = "obj")

\* re.search(r"\{.*\}", cleaned, re.DOTALL): from the first opening brace to
\* the last closing brace (greedy), when a closing brace follows an opening one.
SearchObject(toks) ==
    LET opens == { i \in 1..Len(toks) : HasOpen(toks[i]) }
        closes == { j \in 1..Len(toks) : HasClose(toks[j]) }
    IN  IF opens = {} \/ closes = {}
        THEN [found |-> FALSE, toks |-> <<>>]
        ELSE LET i == CHOOSE x \in opens : \A y \in opens : x <= y
                 j == CHOOSE x \in closes : \A y \in closes : y <= x
             IN  IF i < j \/ (i = j /\ toks[i].t = "value")
                 THEN [found |-> TRUE, toks |-> SubSeq(toks, i, j)]
                 ELSE [found |-> FALSE, toks |-> <<>>]

\* A conversion that gives 0 for an absent key whatever the default.
FloatOfZeroDefault(fv, default) ==
    CASE fv.k = "absent" -> [exc |-> "", v |-> 0]
      [] fv.k = "num" -> [exc |-> "", v |-> fv.n]
      [] fv.k = "numstr" -> [exc |-> "", v |-> fv.n]
      [] fv.k = "null" -> [exc |-> "TypeError", v |-> 0]
      [] OTHER -> [exc |-> "ValueError", v |-> 0]

\* float(item.get(key, default)): None raises TypeError, a string that is no
\* number raises ValueError.
FloatOf(fv, default) ==
    CASE fv.k = "absent" -> [exc |-> "", v |-> default]
      [] fv.k = "num" -> [exc |-> "", v |-> fv.n]
      [] fv.k = "numstr" -> [exc |-> "", v |-> fv.n]
      [] fv.k = "null" -> [exc |-> "TypeError", v |-> 0]
      [] OTHER -> [exc |-> "ValueError", v |-> 0]

\* A string or None as a Python value: is_none, or the string s.
PyNone == [is_none |-> TRUE, s |-> ""]
PyStr(s) == [is_none |-> FALSE, s |-> s]

\* item.get("food_name", "Unknown") and item.get("serving_size").
StrOf(sv, default) ==
    CASE sv.k = "absent" -> default
      [] sv.k = "null" -> PyNone
      [] OTHER -> PyStr(sv.s)

\* AIFoodItem(...): the model's validation.  food_name is a required str (None
\* is refused); confidence must lie in [0, 100]; the macros are any float.
AIFoodItem(food_name, serving_size, calories, protein, carbs, fat, confidence) ==
    IF food_name.is_none \/ confidence < ConfidenceMin \/ confidence > ConfidenceMax
    THEN [exc |-> "ValidationError", item |-> <<>>]
    ELSE [exc |-> "",
          item |-> << [food_name |-> food_name.s, serving_size |-> serving_size,
                       calories |-> calories, protein |-> protein, carbs |-> carbs,
                       fat |-> fat, confidence |-> confidence] >>]

\* One turn of the loop `for item in data.get("food_items", [])`: item.get on
\* an element that is no dict raises AttributeError.
ParseItem(item) ==
    IF item.kind # "obj" THEN [exc |-> "AttributeError", item |-> <<>>]
    ELSE LET cal == FloatOf(item.calories, 0)
             pro == FloatOf(item.protein, 0)
             carb == FloatOf(item.carbs, 0)
             fat == FloatOf(item.fat, 0)
             conf == FloatOf(item.confidence, DefaultConfidence)
             bad == { r \in {cal, pro, carb, fat, conf} : r.exc # "" }
         IN  IF bad # {}
             THEN [exc |-> (CHOOSE r \in bad : TRUE).exc, item |-> <<>>]
             ELSE AIFoodItem(StrOf(item.food_name, PyStr("Unknown")),
                             StrOf(item.serving_size, PyNone),
                             cal.v, pro.v, carb.v, fat.v, conf.v)

RECURSIVE ParseItems(_)
\* The loop over the items: the first item that raises ends it.
ParseItems(items) ==
    IF items = <<>> THEN [exc |-> "", food_items |-> <<>>]
    ELSE LET first == ParseItem(Head(items))
         IN  IF first.exc # "" THEN [exc |-> first.exc, food_items |-> <<>>]
             ELSE LET rest == ParseItems(Tail(items))
                  IN  IF rest.exc # "" THEN rest
                      ELSE [exc |-> "", food_items |-> first.item \o rest.food_items]

Raised(e) == [exc |-> e, food_items |-> <<>>, overall_confidence |-> 0]

\* The part of _parse_response after `data` is bound: data.get on a value that
\* is no dict raises AttributeError; a food_items that is null or a number
\* cannot be iterated (TypeError).
ParseData(data) ==
    IF data.kind # "obj" THEN Raised("AttributeError")
    ELSE IF data.food_items.k \in {"null", "scalar"} THEN Raised("TypeError")
    ELSE LET parsed == ParseItems(data.food_items.items)
             oc == FloatOf(data.overall_confidence, DefaultConfidence)
         IN  IF parsed.exc # "" THEN Raised(parsed.exc)
             ELSE IF oc.exc # "" THEN Raised(oc.exc)
             ELSE [exc |-> "", food_items |-> parsed.food_items,
                   overall_confidence |-> oc.v]

\* The dict the parser returns when nothing can be parsed.
EmptyParse == [exc |-> "", food_items |-> <<>>, overall_confidence |-> 0]

\* _parse_response(raw_text): what it returns, or the exception it raises
\* (exc # "").  None has no strip (AttributeError).  The json.loads of the
\* fallback runs inside the except block and is not guarded.
ParseResponse(raw_text) ==
    IF raw_text.is_none THEN Raised("AttributeError")
    ELSE LET cleaned == Cleaned(raw_text.toks)
             direct == JsonLoads(cleaned)
             match == SearchObject(cleaned)
         IN  IF direct.ok THEN ParseData(direct.doc)
             ELSE IF match.found
                  THEN LET again == JsonLoads(match.toks)
                       IN  IF again.ok THEN ParseData(again.doc)
                           ELSE Raised("JSONDecodeError")
                  ELSE EmptyParse

RECURSIVE Sum(_, _)
\* sum(item.<field> for item in food_items)
Sum(items, field) ==
    IF items = <<>> THEN 0 ELSE Head(items)[field] + Sum(Tail(items), field)

\* An AIRecognitionResult, or the exception raised instead of it.
NoResult(e) ==
    [exc |-> e, food_items |-> <<>>, total_calories |-> 0, total_protein |-> 0,
     total_carbs |-> 0, total_fat |-> 0, ai_confidence |-> 0, source |-> "openai"]

\* A result built without the validation of ai_confidence.
AIRecognitionResultUnchecked(food_items, cal, pro, carb, fat, ai_confidence, source) ==
    [exc |-> "", food_items |-> food_items, total_calories |-> cal,
     total_protein |-> pro, total_carbs |-> carb, total_fat |-> fat,
     ai_confidence |-> ai_confidence, source |-> source]

\* AIRecognitionResult(...): ai_confidence must lie in [0, 100].
AIRecognitionResult(food_items, cal, pro, carb, fat, ai_confidence, source) ==
    IF ai_confidence < ConfidenceMin \/ ai_confidence > ConfidenceMax
    THEN NoResult("ValidationError")
    ELSE [exc |-> "", food_items |-> food_items, total_calories |-> cal,
          total_protein |-> pro, total_carbs |-> carb, total_fat |-> fat,
          ai_confidence |-> ai_confidence, source |-> source]

\* A sum that starts at the second item.
TotalOfSkippingFirst(items, field) ==
    IF items = <<>> THEN 0 ELSE Sum(Tail(items), field)

\* The four totals analyze_food_image / analyze_food_text compute.
TotalOf(items, field) == Sum(items, field)

\* analyze_food_image / analyze_food_text once the API call has returned
\* raw_text: parse, sum the totals, build the result.
AnalyzeResponse(raw_text) ==
    LET parsed == ParseResponse(raw_text)
    IN  IF parsed.exc # "" THEN NoResult(parsed.exc)
        ELSE AIRecognitionResult(parsed.food_items,
                                 TotalOf(parsed.food_items, "calories"),
                                 TotalOf(parsed.food_items, "protein"),
                                 TotalOf(parsed.food_items, "carbs"),
                                 TotalOf(parsed.food_items, "fat"),
                                 parsed.overall_confidence, "openai")

\* ------------------------------------------------------------------ state

VARIABLES
    use_custom_model,        \* settings.use_custom_model
    supabase_storage_bucket, \* settings.supabase_storage_bucket is set
    checkpoint_file,         \* the file at settings.custom_model_path
    model_loaded,            \* custom_model_service._model_loaded
    model,                   \* custom_model_service._model: "None" or "loaded"
    pc,                      \* where the request in progress stands
    req,                     \* the request: endpoint and form fields
    user_id,                 \* user_id is truthy (given, or resolved from auth_id)
    validated,               \* the request passed the endpoint's input checks
    custom_prediction,       \* hybrid_analyze: custom_prediction
    used_source,             \* hybrid_analyze: used_source
    local_exc,               \* the exception predict_food raised, "" if none
    estimator_calls,         \* chat.completions.create calls of this request
    raw_text,                \* response.choices[0].message.content
    parsed,                  \* what _parse_response returned or raised
    ai_result,               \* the AIRecognitionResult, or the exception instead
    image_url,               \* what upload_food_image returned
    save_exc,                \* the exception the save block swallowed, "" if none
    next_item,               \* the dataset loop: index of the next item
    food_logs,               \* rows this request inserted into food_logs
    food_items,              \* rows this request inserted into food_items
    training_dataset,        \* rows this request inserted into training_dataset
    response,                \* the HTTP response of the request
    load_calls,              \* load_model() calls of the serving process
    storage_reads,           \* torch.load calls of the serving process
    last_read,               \* the file the last torch.load found, "none" before
    train_pc,                \* where the training run stands
    train_args,              \* train_model's arguments
    custom_dir,              \* <data_dir>/custom: exists, its image files
    custom_train,            \* custom_train: the sample indices of the training subset
    custom_val,              \* custom_val: the sample indices of the validation subset
    output_dir_exists,       \* the directory of output_path exists
    train_datasets,          \* lengths of the datasets in train_datasets
    val_datasets,            \* lengths of the datasets in val_datasets
    epoch,                   \* the loop variable of `for epoch in range(epochs)`
    best_accuracy,           \* best_accuracy
    training_history,        \* val_acc of each finished epoch
    checkpoint_saves,        \* the torch.save calls of the run, in order
    report,                  \* the training report file
    train_exc,               \* the exception that ended the run, "" if none
    export_pc,               \* where download_supabase_dataset stands
    verified_only,           \* its argument verified_only
    samples,                 \* samples: the rows get_dataset_samples returned
    sample_index,            \* the loop over samples: index of the next one
    warnings,                \* "Failed to download image" warnings logged
    metadata,                \* metadata.json has been written
    export_exc,              \* the exception that ended the export, "" if none
    checkpoint_num_classes,  \* "num_classes" in the file at custom_model_path
    model_num_classes        \* the outputs of the cached model, 0 without one

settingsVars ==
    <<use_custom_model, supabase_storage_bucket, checkpoint_file, checkpoint_num_classes>>
cacheVars == <<model_loaded, model, model_num_classes>>
tableVars == <<food_logs, food_items, training_dataset>>
localVars == <<custom_prediction, used_source, local_exc>>
estimatorVars == <<estimator_calls, raw_text, parsed, ai_result>>
loadVars == <<load_calls, storage_reads, last_read>>
exportVars ==
    <<export_pc, verified_only, samples, sample_index, warnings, metadata, export_exc>>
trainVars ==
    <<train_pc, train_args, custom_dir, custom_train, custom_val, output_dir_exists,
      train_datasets, val_datasets, epoch, best_accuracy, training_history, checkpoint_saves,
      report, train_exc>>
vars ==
    <<use_custom_model, supabase_storage_bucket, checkpoint_file, model_loaded, model,
      pc, req, user_id, validated, custom_prediction, used_source, local_exc,
      estimator_calls, raw_text, parsed, ai_result, image_url, save_exc, next_item,
      food_logs, food_items, training_dataset, response, load_calls, storage_reads,
      last_read, train_pc, train_args, custom_dir, custom_train, custom_val,
      output_dir_exists,
      train_datasets, val_datasets, epoch, best_accuracy, training_history,
      checkpoint_saves, report, train_exc, export_pc, verified_only, samples,
      sample_index, warnings, metadata, export_exc, checkpoint_num_classes,
      model_num_classes>>

\* custom_prediction = None
NoPrediction == [some |-> FALSE, confidence |-> 0, food_name |-> ""]
\* No AIRecognitionResult yet (ai_result=None of a manual entry).
NoAIResult == NoResult("unset")
NoParse == Raised("unset")
NoResponse == [status |-> 0, has_result |-> FALSE]

\* A manual entry's items (FoodItemCreate: every macro >= 0).
ManualEggs == [food_name |-> "Eggs", serving_size |-> PyStr("2 large"),
               calories |-> 100, protein |-> 8, carbs |-> 1, fat |-> 7]
ManualToast == [food_name |-> "Toast", serving_size |-> PyNone,
                calories |-> 120, protein |-> 3, carbs |-> 22, fat |-> 2]
ManualItemLists == SeqsUpTo({ManualEggs, ManualToast}, MaxItems)

\* The three recognition endpoints and the manual food log endpoint.
Endpoints == {"image", "text", "hybrid", "manual"}

Form(endpoint, uid, auth, meal, save, ctype, large, blank, decodable, items) ==
    [endpoint |-> endpoint, user_id |-> uid, auth_id |-> auth, meal_type |-> meal,
     save_log |-> save, content_type_ok |-> ctype, too_large |-> large,
     description_blank |-> blank, decodable |-> decodable, manual_items |-> items]

NoRequest == Form("none", FALSE, FALSE, FALSE, FALSE, TRUE, FALSE, FALSE, TRUE, <<>>)

\* The requests a client can send; a field an endpoint does not read is fixed.
Requests ==
    { Form("image", u, a, m, s, c, l, FALSE, TRUE, <<>>) :
        u \in BOOLEAN, a \in BOOLEAN, m \in BOOLEAN, s \in BOOLEAN,
        c \in BOOLEAN, l \in BOOLEAN }
    \cup { Form("text", u, a, m, s, TRUE, FALSE, b, TRUE, <<>>) :
        u \in BOOLEAN, a \in BOOLEAN, m \in BOOLEAN, s \in BOOLEAN, b \in BOOLEAN }
    \cup { Form("hybrid", u, a, m, s, c, FALSE, FALSE, d, <<>>) :
        u \in BOOLEAN, a \in BOOLEAN, m \in BOOLEAN, s \in BOOLEAN,
        c \in BOOLEAN, d \in BOOLEAN }
    \cup { Form("manual", TRUE, FALSE, TRUE, TRUE, TRUE, FALSE, FALSE, TRUE, l) :
        l \in ManualItemLists }

\* What the local classifier's softmax maximum can be, in hundredths.
LocalConfidences == {50, 75, 90}

\* A response of n items (eggs, toast, eggs, ...) with overall confidence c.
MealDoc(n, c) ==
    JsonObject(ItemsList([i \in 1..n |-> IF i % 2 = 1 THEN EggsJson ELSE ToastJson]),
               Num(c))

\* The estimator responses the endpoints are run on.
EstimatorResponses ==
    { Text(<<Value(MealDoc(n, c))>>) : n \in 0..MaxItems, c \in {79, 80, 90} }
    \cup { NoneText,
           Text(<<Fence, JsonTag, WS, Value(EggsAndToastDoc), WS, Fence>>),
           Text(<<Prose, WS, Value(EggsAndToastDoc), WS, Prose>>),
           Text(<<Prose>>),
           Text(<<Prose, LBrace, Prose, RBrace>>),
           Text(<<Value(JsonArray)>>),
           Text(<<Value(MealDoc(1, 101))>>),
           Text(<<Value(JsonObject(ItemsList(<<>>), Num(0 - 1)))>>),
           Text(<<Value(JsonObject(ItemsList(<<BareJson, [ToastJson EXCEPT !.fat = NumStr(2)]>>),
                                   Absent))>>) }

TypeOK ==
    /\ use_custom_model \in BOOLEAN
    /\ supabase_storage_bucket \in BOOLEAN
    /\ checkpoint_file \in {"missing", "valid", "corrupt", "partial"}
    /\ model_loaded \in BOOLEAN
    /\ model \in {"None", "loaded"}
    /\ load_calls \in 0..MaxLoadCalls
    /\ storage_reads \in 0..MaxLoadCalls
    /\ last_read \in {"none", "valid", "corrupt", "partial"}
    /\ train_pc \in {"idle", "datasets", "loaders", "epoch", "save", "saving",
                     "report", "done"}
    /\ epoch \in 0..MaxEpochs
    /\ export_pc \in {"idle", "loop", "done"}
    /\ checkpoint_num_classes \in CheckpointClassCounts
    /\ model_num_classes \in {0} \cup CheckpointClassCounts
    /\ verified_only \in BOOLEAN
    /\ sample_index \in 1..(MaxSamples + 1)
    /\ warnings \in 0..MaxSamples
    /\ metadata \in BOOLEAN
    /\ pc \in {"idle", "resolve", "validate", "local", "estimator", "save", "log",
               "items", "samples", "respond", "done", "parse", "analyze",
               "analyzed"}
    /\ user_id \in BOOLEAN
    /\ validated \in BOOLEAN
    /\ estimator_calls \in 0..1
    /\ next_item \in 1..(MaxItems + 1)
    /\ response.status \in {0, 200, 400, 500}

\* The per-request variables before a request starts.
Fresh ==
    /\ user_id = FALSE
    /\ validated = FALSE
    /\ custom_prediction = NoPrediction
    /\ used_source = "openai"
    /\ local_exc = ""
    /\ estimator_calls = 0
    /\ raw_text = NoneText
    /\ parsed = NoParse
    /\ ai_result = NoAIResult
    /\ image_url = PyNone
    /\ save_exc = ""
    /\ next_item = 1
    /\ food_logs = <<>>
    /\ food_items = <<>>
    /\ training_dataset = <<>>
    /\ response = NoResponse

\* No load_model call yet.
NoLoads ==
    /\ load_calls = 0
    /\ storage_reads = 0
    /\ last_read = "none"

\* train_model's arguments.
TrainArgs(epochs, include_custom, custom_only) ==
    [epochs |-> epochs, include_custom |-> include_custom, custom_only |-> custom_only]

\* The file json.dump writes; written is FALSE while there is none.
NoReport == [written |-> FALSE, best_accuracy |-> 0, total_epochs |-> 0, history |-> <<>>]

\* train_model's locals before the run starts.
TrainFresh ==
    /\ custom_train = {}
    /\ custom_val = {}
    /\ train_datasets = <<>>
    /\ val_datasets = <<>>
    /\ epoch = 0
    /\ best_accuracy = 0
    /\ training_history = <<>>
    /\ checkpoint_saves = <<>>
    /\ report = NoReport
    /\ train_exc = ""

\* No export of the training_dataset table.
NoExport ==
    /\ export_pc = "idle"
    /\ verified_only = TRUE
    /\ samples = <<>>
    /\ sample_index = 1
    /\ warnings = 0
    /\ metadata = FALSE
    /\ export_exc = ""

\* No training run on this machine.
NoTraining ==
    /\ train_pc = "idle"
    /\ train_args = TrainArgs(0, FALSE, FALSE)
    /\ custom_dir = [exists |-> FALSE, files |-> <<>>]
    /\ output_dir_exists = (checkpoint_file # "missing")
    /\ TrainFresh

\* The process after start-up: the settings are read once, no model is
\* loaded, no request is in progress.
Init ==
    /\ use_custom_model \in BOOLEAN
    /\ supabase_storage_bucket \in BOOLEAN
    /\ checkpoint_file \in {"missing", "valid", "corrupt"}
    /\ checkpoint_num_classes \in
          IF checkpoint_file = "valid" THEN CheckpointClassCounts ELSE {num_classes}
    /\ model_loaded = FALSE
    /\ model = "None"
    /\ model_num_classes = 0
    /\ pc = "idle"
    /\ req = NoRequest
    /\ Fresh
    /\ NoLoads
    /\ NoTraining
    /\ NoExport

\* -------------------------------------------------------------- requests

\* A client sends a request while none is in progress.  The manual endpoint
\* has no user lookup and no validation of its own.  The process is followed
\* up to MaxLoadCalls calls of load_model.
Request(r) ==
    /\ pc = "idle"
    /\ load_calls < MaxLoadCalls
    /\ req' = r
    /\ pc' = IF r.endpoint = "manual" THEN "log" ELSE "resolve"
    /\ UNCHANGED <<settingsVars, trainVars, exportVars, loadVars, cacheVars, tableVars, localVars, estimatorVars,
                   user_id, validated, image_url, save_exc, next_item, response>>

\* The response has been sent: the handler's locals are gone.  Only the
\* settings and the model cache outlive a request.
Complete ==
    /\ pc = "done"
    /\ pc' = "idle"
    /\ req' = NoRequest
    /\ user_id' = FALSE
    /\ validated' = FALSE
    /\ custom_prediction' = NoPrediction
    /\ used_source' = "openai"
    /\ local_exc' = ""
    /\ estimator_calls' = 0
    /\ raw_text' = NoneText
    /\ parsed' = NoParse
    /\ ai_result' = NoAIResult
    /\ image_url' = PyNone
    /\ save_exc' = ""
    /\ next_item' = 1
    /\ food_logs' = <<>>
    /\ food_items' = <<>>
    /\ training_dataset' = <<>>
    /\ response' = NoResponse
    /\ UNCHANGED <<settingsVars, trainVars, exportVars, loadVars, cacheVars>>

\* An exception no handler catches: the framework answers 500.
UnhandledResponse == [status |-> 500, has_result |-> FALSE]
\* raise HTTPException(status_code=400, ...)
BadRequestResponse == [status |-> 400, has_result |-> FALSE]
\* except Exception: raise HTTPException(status_code=500, "... analysis failed")
AnalysisFailedResponse == [status |-> 500, has_result |-> FALSE]
\* return result / return {"recognition": ai_result, ...}
ResultResponse == [status |-> 200, has_result |-> TRUE]
\* return {"success": True, "food_log": food_log}
CreatedResponse == [status |-> 200, has_result |-> FALSE]

\* `if not user_id and auth_id: user_id = await get_user_id_from_auth(auth_id)`.
\* The lookup finds the user, finds none, or raises.
ResolveUser ==
    /\ pc = "resolve"
    /\ IF ~req.user_id /\ req.auth_id
       THEN \E lookup \in {"found", "none", "raises"} :
              IF lookup = "raises"
              THEN /\ pc' = "done"
                   /\ response' = UnhandledResponse
                   /\ user_id' = FALSE
              ELSE /\ pc' = "validate"
                   /\ response' = response
                   /\ user_id' = (lookup = "found")
       ELSE /\ pc' = "validate"
            /\ response' = response
            /\ user_id' = req.user_id
    /\ UNCHANGED <<settingsVars, trainVars, exportVars, loadVars, cacheVars, tableVars, localVars, estimatorVars,
                   req, validated, image_url, save_exc, next_item>>

\* The input checks without the content type check of the hybrid endpoint.
InputValidIgnoringType(r) ==
    CASE r.endpoint = "image" -> r.content_type_ok /\ ~r.too_large
      [] r.endpoint = "text" -> ~r.description_blank
      [] OTHER -> TRUE

\* The endpoint's input checks: the content type (image, hybrid), the 10MB
\* limit (image only), the blank description (text).
InputValid(r) ==
    CASE r.endpoint = "image" -> r.content_type_ok /\ ~r.too_large
      [] r.endpoint = "hybrid" -> r.content_type_ok
      [] r.endpoint = "text" -> ~r.description_blank
      [] OTHER -> TRUE

Validate ==
    /\ pc = "validate"
    /\ IF InputValid(req)
       THEN /\ validated' = TRUE
            /\ pc' = IF req.endpoint = "hybrid" THEN "local" ELSE "estimator"
            /\ response' = response
       ELSE /\ validated' = FALSE
            /\ pc' = "done"
            /\ response' = BadRequestResponse
    /\ UNCHANGED <<settingsVars, trainVars, exportVars, loadVars, cacheVars, tableVars, localVars, estimatorVars,
                   req, user_id, image_url, save_exc, next_item>>

\* ------------------------------------------------- custom_model_service

\* predicted_idx of torch.max over the model's outputs: any index below the
\* number of outputs; the index of pizza and the last one stand for all.
PredictedIndexes(outputs) == {76, outputs - 1} \cap (0..(outputs - 1))

\* predicted_class.replace("_", " ").title() for the labels of the model.
Title(class) ==
    CASE class = "pizza" -> "Pizza"
      [] class = "baklava" -> "Baklava"
      [] class = "waffles" -> "Waffles"
      [] class = "apple_pie" -> "Apple Pie"
      [] OTHER -> "Other"

\* A load_model that raises when there is no file at the path.
LoadModelMissingRaises ==
    IF model_loaded
    THEN [exc |-> "", read |-> FALSE, model_loaded |-> TRUE, model |-> model,
          num_classes |-> model_num_classes]
    ELSE CASE checkpoint_file = "valid" ->
                [exc |-> "", read |-> TRUE, model_loaded |-> TRUE, model |-> "loaded",
                 num_classes |-> checkpoint_num_classes]
           [] OTHER ->
                [exc |-> "FileNotFoundError", read |-> TRUE,
                 model_loaded |-> model_loaded, model |-> model,
                 num_classes |-> model_num_classes]

\* load_model() that trusts the cache only when it holds a model, and looks
\* for the file again when it holds None.
LoadModelRechecksMissing ==
    IF model_loaded /\ model # "None"
    THEN [exc |-> "", read |-> FALSE, model_loaded |-> TRUE, model |-> model,
          num_classes |-> model_num_classes]
    ELSE CASE checkpoint_file = "missing" ->
                [exc |-> "", read |-> FALSE, model_loaded |-> TRUE, model |-> "None",
                 num_classes |-> 0]
           [] checkpoint_file = "valid" ->
                [exc |-> "", read |-> TRUE, model_loaded |-> TRUE, model |-> "loaded",
                 num_classes |-> checkpoint_num_classes]
           [] OTHER ->
                [exc |-> "UnpicklingError", read |-> TRUE,
                 model_loaded |-> model_loaded, model |-> model,
                 num_classes |-> model_num_classes]

\* load_model(): the cached model once _model_loaded is set; else no file
\* caches None; torch.load / load_state_dict of an unreadable file (corrupt,
\* or still being written) raise and leave the cache as it was.  read: the
\* call reached torch.load.
LoadModel ==
    IF model_loaded
    THEN [exc |-> "", read |-> FALSE, model_loaded |-> TRUE, model |-> model,
          num_classes |-> model_num_classes]
    ELSE CASE checkpoint_file = "missing" ->
                [exc |-> "", read |-> FALSE, model_loaded |-> TRUE, model |-> "None",
                 num_classes |-> 0]
           [] checkpoint_file = "valid" ->
                [exc |-> "", read |-> TRUE, model_loaded |-> TRUE, model |-> "loaded",
                 num_classes |-> checkpoint_num_classes]
           [] OTHER ->
                [exc |-> "UnpicklingError", read |-> TRUE,
                 model_loaded |-> model_loaded, model |-> model,
                 num_classes |-> model_num_classes]

\* The comparison with > in place of >=.
IsConfidentStrict(prediction) ==
    prediction.some /\ prediction.confidence > custom_model_confidence_threshold

\* `custom_prediction and custom_prediction.confidence >= threshold`
IsConfident(prediction) ==
    prediction.some /\ prediction.confidence >= custom_model_confidence_threshold

\* The source hybrid_analyze settles on.
UsedSource(prediction) == IF IsConfident(prediction) THEN "hybrid" ELSE "openai"

\* except Exception in recognize_food_hybrid around hybrid_analyze.
HybridFailedResponse == [status |-> 500, has_result |-> FALSE]

\* Step 1 of hybrid_analyze: predict_food when the flag is on.  predict_food
\* has no handler of its own and hybrid_analyze has none around it: what
\* load_model or Image.open raises leaves hybrid_analyze.
PredictFood ==
    /\ pc = "local"
    /\ IF ~use_custom_model
       THEN /\ pc' = "estimator"
            /\ UNCHANGED <<cacheVars, loadVars, localVars, response>>
       ELSE LET load == LoadModel
            IN  /\ model_loaded' = load.model_loaded
                /\ model' = load.model
                /\ model_num_classes' = load.num_classes
                /\ load_calls' = load_calls + 1
                /\ storage_reads' = storage_reads + (IF load.read THEN 1 ELSE 0)
                /\ last_read' = IF load.read THEN checkpoint_file ELSE last_read
                /\ IF load.exc # ""
                   THEN /\ local_exc' = load.exc
                        /\ pc' = "done"
                        /\ response' = HybridFailedResponse
                        /\ UNCHANGED <<custom_prediction, used_source>>
                   ELSE IF load.model = "None"
                   THEN /\ pc' = "estimator"
                        /\ custom_prediction' = NoPrediction
                        /\ used_source' = UsedSource(NoPrediction)
                        /\ UNCHANGED <<local_exc, response>>
                   ELSE IF ~req.decodable
                   THEN /\ local_exc' = "UnidentifiedImageError"
                        /\ pc' = "done"
                        /\ response' = HybridFailedResponse
                        /\ UNCHANGED <<custom_prediction, used_source>>
                   ELSE \E c \in LocalConfidences,
                           predicted_idx \in PredictedIndexes(load.num_classes) :
                          IF predicted_idx >= Len(FOOD101_CLASSES)
                          THEN /\ local_exc' = "IndexError"
                               /\ pc' = "done"
                               /\ response' = HybridFailedResponse
                               /\ UNCHANGED <<custom_prediction, used_source>>
                          ELSE LET prediction ==
                                     [some |-> TRUE, confidence |-> c,
                                      food_name |->
                                          Title(FOOD101_CLASSES[predicted_idx + 1])]
                               IN  /\ custom_prediction' = prediction
                                   /\ used_source' = UsedSource(prediction)
                                   /\ pc' = "estimator"
                                   /\ UNCHANGED <<local_exc, response>>
    /\ UNCHANGED <<settingsVars, trainVars, exportVars, tableVars, estimatorVars, req, user_id,
                   validated, image_url, save_exc, next_item>>

\* ------------------------------------------------------ openai_service

\* A hybrid result in which a confident local label replaces the estimator's
\* items.
HybridResultLocalWins(estimate, source) ==
    IF source = "hybrid"
    THEN [estimate EXCEPT !.source = source, !.food_items = <<>>,
                          !.total_calories = 0, !.total_protein = 0,
                          !.total_carbs = 0, !.total_fat = 0]
    ELSE [estimate EXCEPT !.source = source]

\* `ai_result.source = used_source`: the estimator's result with the source
\* hybrid_analyze settled on.
HybridResult(estimate, source) == [estimate EXCEPT !.source = source]

\* An estimator failure answered with an empty result.
EstimatorFailureSilenced == [status |-> 200, has_result |-> TRUE]

\* What the endpoint answers when the estimator stage raised.
EstimatorFailureResponse ==
    IF req.endpoint = "hybrid" THEN HybridFailedResponse ELSE AnalysisFailedResponse

\* analyze_food_image / analyze_food_text (step 2 of hybrid_analyze): one API
\* call, which raises or returns a text; the text is parsed and summed.  An
\* exception reaches the endpoint's handler, which answers 500.
AnalyzeFood ==
    /\ pc = "estimator"
    /\ estimator_calls' = estimator_calls + 1
    /\ \/ /\ ai_result' = NoResult("APIError")
          /\ UNCHANGED <<raw_text, parsed>>
       \/ \E text \in EstimatorResponses :
            LET estimate == AnalyzeResponse(text)
            IN  /\ raw_text' = text
                /\ parsed' = ParseResponse(text)
                /\ ai_result' = IF estimate.exc = "" /\ req.endpoint = "hybrid"
                                THEN HybridResult(estimate, used_source)
                                ELSE estimate
    /\ IF ai_result'.exc # ""
       THEN /\ pc' = "done"
            /\ response' = EstimatorFailureResponse
       ELSE /\ pc' = "save"
            /\ response' = response
    /\ UNCHANGED <<settingsVars, trainVars, exportVars, loadVars, cacheVars, tableVars, localVars, req, user_id,
                   validated, image_url, save_exc, next_item>>

\* ---------------------------------------------------- supabase_service

\* The condition without the meal type.
SaveWantedIgnoringMeal == req.save_log /\ user_id

\* `if save_log and user_id and meal_type:` of the recognition endpoints.
SaveWanted == req.save_log /\ user_id /\ req.meal_type

\* The URL upload_food_image returns for an uploaded image.
PublicUrl == PyStr("https://storage/food.jpg")

\* An upload that raises when no bucket is configured.
UploadFoodImageNeedsBucket ==
    /\ pc = "save"
    /\ SaveWanted
    /\ req.endpoint \in {"image", "hybrid"}
    /\ \/ /\ supabase_storage_bucket
          /\ image_url' = PublicUrl
          /\ pc' = "log"
          /\ save_exc' = save_exc
       \/ /\ image_url' = image_url
          /\ pc' = "respond"
          /\ save_exc' = "StorageError"
    /\ UNCHANGED <<settingsVars, trainVars, exportVars, loadVars, cacheVars, tableVars, localVars,
                   estimatorVars, req, user_id, validated, next_item, response>>

\* upload_food_image (image and hybrid endpoints): None when no bucket is
\* configured; else the upload succeeds and yields the public URL, or raises.
\* What it raises is swallowed by the endpoint's save block.
UploadFoodImage ==
    /\ pc = "save"
    /\ SaveWanted
    /\ req.endpoint \in {"image", "hybrid"}
    /\ IF ~supabase_storage_bucket
       THEN /\ image_url' = PyNone
            /\ pc' = "log"
            /\ save_exc' = save_exc
       ELSE \/ /\ image_url' = PublicUrl
               /\ pc' = "log"
               /\ save_exc' = save_exc
            \/ /\ image_url' = image_url
               /\ pc' = "respond"
               /\ save_exc' = "StorageError"
    /\ UNCHANGED <<settingsVars, trainVars, exportVars, loadVars, cacheVars, tableVars, localVars, estimatorVars,
                   req, user_id, validated, next_item, response>>

\* `if ai_result:` - a result was passed (a manual entry passes None).
HasResult(result) == result.exc = ""

\* create_food_log, "Build totals": copied from the result, or summed over
\* the manual items.
FoodLogRow(result, manual_items, url) ==
    IF HasResult(result)
    THEN [image_url |-> url,
          total_calories |-> result.total_calories,
          total_protein |-> result.total_protein,
          total_carbs |-> result.total_carbs,
          total_fat |-> result.total_fat,
          has_confidence |-> TRUE, ai_confidence |-> result.ai_confidence]
    ELSE [image_url |-> url,
          total_calories |-> Sum(manual_items, "calories"),
          total_protein |-> Sum(manual_items, "protein"),
          total_carbs |-> Sum(manual_items, "carbs"),
          total_fat |-> Sum(manual_items, "fat"),
          has_confidence |-> FALSE, ai_confidence |-> 0]

\* Item rows that carry an id one above that of the log just inserted.
ItemsToInsertOrphaned(result, manual_items, food_log_id) ==
    LET items == IF HasResult(result) THEN result.food_items ELSE manual_items
    IN  [i \in 1..Len(items) |->
            [food_log_id |-> food_log_id + 1,
             food_name |-> items[i].food_name,
             serving_size |-> items[i].serving_size,
             calories |-> items[i].calories,
             protein |-> items[i].protein,
             carbs |-> items[i].carbs,
             fat |-> items[i].fat]]

\* create_food_log, items_to_insert: one row per item of the result, or of
\* the manual entry when there is no result.
ItemsToInsert(result, manual_items, food_log_id) ==
    LET items == IF HasResult(result) THEN result.food_items ELSE manual_items
    IN  [i \in 1..Len(items) |->
            [food_log_id |-> food_log_id,
             food_name |-> items[i].food_name,
             serving_size |-> items[i].serving_size,
             calories |-> items[i].calories,
             protein |-> items[i].protein,
             carbs |-> items[i].carbs,
             fat |-> items[i].fat]]

\* except Exception in create_manual_food_log.
CreateFailedResponse == [status |-> 500, has_result |-> FALSE]

\* The insert into food_logs with the exception of a recognition endpoint
\* reaching the client as a 500.
InsertFoodLogPropagates ==
    /\ \/ pc = "log"
       \/ pc = "save" /\ SaveWanted /\ req.endpoint = "text"
    /\ \/ /\ food_logs' = Append(food_logs,
                                 FoodLogRow(ai_result, req.manual_items, image_url))
          /\ pc' = "items"
          /\ UNCHANGED <<save_exc, response>>
       \/ /\ food_logs' = food_logs
          /\ pc' = "done"
          /\ response' = CreateFailedResponse
          /\ save_exc' = IF req.endpoint = "manual" THEN save_exc ELSE "APIError"
    /\ UNCHANGED <<settingsVars, trainVars, exportVars, loadVars, cacheVars, food_items, training_dataset, localVars,
                   estimatorVars, req, user_id, validated, image_url, next_item>>

\* create_food_log up to the insert into food_logs, which succeeds or
\* raises.  The recognition endpoints swallow the exception; the manual
\* endpoint answers 500.  The text endpoint comes here without an upload.
InsertFoodLog ==
    /\ \/ pc = "log"
       \/ pc = "save" /\ SaveWanted /\ req.endpoint = "text"
    /\ \/ /\ food_logs' = Append(food_logs,
                                 FoodLogRow(ai_result, req.manual_items, image_url))
          /\ pc' = "items"
          /\ UNCHANGED <<save_exc, response>>
       \/ /\ food_logs' = food_logs
          /\ IF req.endpoint = "manual"
             THEN /\ pc' = "done"
                  /\ response' = CreateFailedResponse
                  /\ save_exc' = save_exc
             ELSE /\ pc' = "respond"
                  /\ response' = response
                  /\ save_exc' = "APIError"
    /\ UNCHANGED <<settingsVars, trainVars, exportVars, loadVars, cacheVars, food_items, training_dataset, localVars,
                   estimatorVars, req, user_id, validated, image_url, next_item>>

\* The bar as a strict one: > in place of >=.
ShouldContributeStrict(result, url) ==
    result.ai_confidence > DatasetConfidenceBar /\ ~url.is_none

\* The condition with `or` in place of `and`.
ShouldContributeEither(result, url) ==
    result.ai_confidence >= DatasetConfidenceBar \/ ~url.is_none

\* `if ai_result.ai_confidence >= 80 and image_url`
ShouldContribute(result, url) ==
    result.ai_confidence >= DatasetConfidenceBar /\ ~url.is_none

\* One sample per request: the first item only.
DatasetItemsFirstOnly(result) ==
    IF result.food_items = <<>> THEN <<>> ELSE <<Head(result.food_items)>>

\* `for item in ai_result.food_items`: the items the dataset loop visits.
DatasetItems(result) == result.food_items

\* The rest of create_food_log: the insert into food_items (one call with
\* all rows, none when there is no item), which succeeds or raises.  After it
\* the hybrid endpoint goes on to the dataset loop, when the result is
\* confident and has an image URL; the manual endpoint answers.
InsertFoodItems ==
    /\ pc = "items"
    /\ LET rows == ItemsToInsert(ai_result, req.manual_items, Len(food_logs))
       IN  \/ /\ food_items' = food_items \o rows
              /\ IF req.endpoint = "manual"
                 THEN /\ pc' = "done"
                      /\ response' = CreatedResponse
                 ELSE /\ pc' = IF /\ req.endpoint = "hybrid"
                                  /\ ShouldContribute(ai_result, image_url)
                                  /\ DatasetItems(ai_result) # <<>>
                               THEN "samples"
                               ELSE "respond"
                      /\ response' = response
              /\ save_exc' = save_exc
           \/ /\ rows # <<>>
              /\ food_items' = food_items
              /\ IF req.endpoint = "manual"
                 THEN /\ pc' = "done"
                      /\ response' = CreateFailedResponse
                      /\ save_exc' = save_exc
                 ELSE /\ pc' = "respond"
                      /\ response' = response
                      /\ save_exc' = "APIError"
    /\ UNCHANGED <<settingsVars, trainVars, exportVars, loadVars, cacheVars, food_logs, training_dataset, localVars,
                   estimatorVars, req, user_id, validated, image_url, next_item>>

\* DatasetSample(...) as the hybrid endpoint builds it, and the row
\* save_dataset_sample inserts for it.
SampleRow(item, url) ==
    [image_url |-> url.s, food_name |-> item.food_name, calories |-> item.calories,
     protein |-> item.protein, carbs |-> item.carbs, fat |-> item.fat,
     verified |-> FALSE, source |-> "ai_auto"]

\* One turn of the dataset loop: save_dataset_sample for the next item, which
\* succeeds or raises; an exception ends the loop and is swallowed.
SaveDatasetSample ==
    /\ pc = "samples"
    /\ LET items == DatasetItems(ai_result)
       IN  \/ /\ training_dataset' =
                    Append(training_dataset, SampleRow(items[next_item], image_url))
              /\ next_item' = next_item + 1
              /\ pc' = IF next_item < Len(items) THEN "samples" ELSE "respond"
              /\ save_exc' = save_exc
           \/ /\ training_dataset' = training_dataset
              /\ next_item' = next_item
              /\ pc' = "respond"
              /\ save_exc' = "APIError"
    /\ UNCHANGED <<settingsVars, trainVars, exportVars, loadVars, cacheVars, food_logs, food_items, localVars,
                   estimatorVars, req, user_id, validated, image_url, response>>

\* The recognition endpoint returns its result: after the save block, or at
\* once when nothing is to be saved.
Respond ==
    /\ \/ pc = "respond"
       \/ pc = "save" /\ ~SaveWanted
    /\ pc' = "done"
    /\ response' = ResultResponse
    /\ UNCHANGED <<settingsVars, trainVars, exportVars, loadVars, cacheVars, tableVars, localVars, estimatorVars,
                   req, user_id, validated, image_url, save_exc, next_item>>

Next ==
    \/ \E r \in Requests : Request(r)
    \/ ResolveUser
    \/ Validate
    \/ PredictFood
    \/ AnalyzeFood
    \/ UploadFoodImage
    \/ InsertFoodLog
    \/ InsertFoodItems
    \/ SaveDatasetSample
    \/ Respond
    \/ Complete

Spec == Init /\ [][Next]_vars

\* --------------------------------------------- the parser on arbitrary text

\* The tokens arbitrary responses are made of.
ShapeTokens ==
    { WS, Fence, JsonTag, Prose, LBrace, RBrace,
      Value(EggsAndToastDoc), Value(JsonArray), Value(JsonScalar) }

\* The responses the parser is run on: every token sequence up to
\* MaxTextLen, and every document bare, fenced and inside prose.
ParseTexts ==
    { NoneText }
    \cup { Text(t) : t \in SeqsUpTo(ShapeTokens, MaxTextLen) }
    \cup { Text(<<Value(d)>>) : d \in Docs }
    \cup { Text(<<Fence, JsonTag, WS, Value(d), WS, Fence>>) : d \in Docs }
    \cup { Text(<<Prose, WS, Value(d), WS, Prose>>) : d \in Docs }

InitParse ==
    /\ use_custom_model = FALSE
    /\ supabase_storage_bucket = FALSE
    /\ checkpoint_file = "missing"
    /\ checkpoint_num_classes = num_classes
    /\ model_loaded = FALSE
    /\ model = "None"
    /\ model_num_classes = 0
    /\ pc = "parse"
    /\ req = NoRequest
    /\ user_id = FALSE
    /\ validated = FALSE
    /\ custom_prediction = NoPrediction
    /\ used_source = "openai"
    /\ local_exc = ""
    /\ estimator_calls = 0
    /\ raw_text \in ParseTexts
    /\ parsed = NoParse
    /\ ai_result = NoAIResult
    /\ image_url = PyNone
    /\ save_exc = ""
    /\ next_item = 1
    /\ food_logs = <<>>
    /\ food_items = <<>>
    /\ training_dataset = <<>>
    /\ response = NoResponse
    /\ NoLoads
    /\ NoTraining
    /\ NoExport

\* _parse_response(raw_text)
ParseResponseCall ==
    /\ pc = "parse"
    /\ parsed' = ParseResponse(raw_text)
    /\ pc' = "analyze"
    /\ UNCHANGED <<settingsVars, trainVars, exportVars, loadVars, cacheVars, tableVars, localVars, estimator_calls,
                   raw_text, ai_result, req, user_id, validated, image_url, save_exc,
                   next_item, response>>

\* analyze_food_text on the response raw_text.
AnalyzeResponseCall ==
    /\ pc = "analyze"
    /\ ai_result' = AnalyzeResponse(raw_text)
    /\ pc' = "analyzed"
    /\ UNCHANGED <<settingsVars, trainVars, exportVars, loadVars, cacheVars, tableVars, localVars, estimator_calls,
                   raw_text, parsed, req, user_id, validated, image_url, save_exc,
                   next_item, response>>

NextParse == ParseResponseCall \/ AnalyzeResponseCall

SpecParse == InitParse /\ [][NextParse]_vars

\* ------------------------------------------------ training.train_model

\* torchvision's Food-101 splits: 75,750 training and 25,250 test images.
Food101TrainLen == 75750
Food101TestLen == 25250

\* What 100.0 * val_correct / val_total can come to in an epoch.
Accuracies == {0, 40, 50, 55, 60}

\* An image file of the custom directory: the class directory it lies in and
\* whether Image.open can read it.
ImageFile(class_name, decodable) == [class_name |-> class_name, decodable |-> decodable]
PizzaFile == ImageFile("pizza", TRUE)

\* <data_dir>/custom before a training run: missing, or present with up to
\* MaxImages images of a Food-101 class.
CustomDirs ==
    { [exists |-> FALSE, files |-> <<>>] }
    \cup { [exists |-> TRUE, files |-> [i \in 1..n |-> PizzaFile]] : n \in 0..MaxImages }

\* The class directory is one of class_names.
InClassNames(file) == \E i \in 1..Len(FOOD101_CLASSES) : FOOD101_CLASSES[i] = file.class_name

\* CustomFoodDataset(custom_dir, class_names=FOOD101_CLASSES).samples: the
\* images in the directories of the given class names, none for a missing
\* root directory.
CustomFoodDatasetSamples(dir) ==
    IF dir.exists THEN SelectSeq(dir.files, InClassNames) ELSE <<>>

\* len(CustomFoodDataset(custom_dir, ...))
CustomFoodDatasetLen(dir) == Len(CustomFoodDatasetSamples(dir))

\* random_split(dataset, [train_size, val_size]): a random permutation of the
\* n indices, cut after train_size.
RandomSplits(n, train_size) ==
    { [first |-> s, second |-> (1..n) \ s] :
        s \in { t \in SUBSET (1..n) : Cardinality(t) = train_size } }

\* train_size = int(0.8 * len(custom_dataset))
TrainSize(n) == (8 * n) \div 10
\* val_size = len(custom_dataset) - train_size
ValSize(n) == n - TrainSize(n)

RECURSIVE SumLens(_)
\* len(ConcatDataset(datasets)), len(datasets[0]) for a single one.
SumLens(lens) == IF lens = <<>> THEN 0 ELSE Head(lens) + SumLens(Tail(lens))

\* Everything but the checkpoint file and the training run.
servingVars ==
    <<use_custom_model, supabase_storage_bucket, cacheVars, loadVars, pc, req,
      user_id, validated, tableVars, localVars, estimatorVars, image_url, save_exc,
      next_item, response>>

\* python -m app.training.train_model --epochs e [--include-custom] [--custom-only]
TrainModelCall(args) ==
    /\ train_pc = "idle"
    /\ train_args' = args
    /\ train_pc' = "datasets"
    /\ UNCHANGED <<servingVars, exportVars, checkpoint_file, checkpoint_num_classes, custom_dir, custom_train, custom_val, output_dir_exists,
                   train_datasets, val_datasets, epoch, best_accuracy,
                   training_history, checkpoint_saves, report, train_exc>>

\* "Load datasets": Food-101 unless custom_only (its download can fail), the
\* 80/20 split of the custom dataset when it is asked for, its directory
\* exists and it has an image; `if not train_datasets: return`.  The
\* training subset is the first part of one random_split, the validation
\* subset the second part of another random_split of the same directory.
LoadDatasets ==
    /\ train_pc = "datasets"
    /\ \/ /\ ~train_args.custom_only
          /\ train_exc' = "RuntimeError"
          /\ train_pc' = "done"
          /\ UNCHANGED <<train_datasets, val_datasets, custom_train, custom_val>>
       \/ LET n == CustomFoodDatasetLen(custom_dir)
              with_custom ==
                  /\ train_args.include_custom \/ train_args.custom_only
                  /\ custom_dir.exists
                  /\ n > 0
              train == (IF train_args.custom_only THEN <<>> ELSE <<Food101TrainLen>>)
                       \o (IF with_custom THEN <<TrainSize(n)>> ELSE <<>>)
              val == (IF train_args.custom_only THEN <<>> ELSE <<Food101TestLen>>)
                     \o (IF with_custom THEN <<ValSize(n)>> ELSE <<>>)
          IN  /\ train_datasets' = train
              /\ val_datasets' = val
              /\ IF with_custom
                 THEN \E split \in RandomSplits(n, TrainSize(n)),
                         again \in RandomSplits(n, TrainSize(n)) :
                        /\ custom_train' = split.first
                        /\ custom_val' = again.second
                 ELSE UNCHANGED <<custom_train, custom_val>>
              /\ train_pc' = IF train = <<>> THEN "done" ELSE "loaders"
              /\ train_exc' = train_exc
    /\ UNCHANGED <<servingVars, exportVars, checkpoint_file, checkpoint_num_classes, train_args, custom_dir,
                   output_dir_exists, epoch, best_accuracy, training_history,
                   checkpoint_saves, report>>

\* A sampler that takes a dataset of any length.
RandomSamplerAcceptsEmpty(num_samples) == num_samples >= 0

\* DataLoader(train_dataset, shuffle=True) builds a RandomSampler, which
\* refuses a dataset without samples (ValueError: num_samples should be a
\* positive integer value).
RandomSamplerAccepts(num_samples) == num_samples > 0

\* "Combine datasets" up to the scheduler: the two loaders, the model, the
\* optimizer.  The ValueError of the sampler ends the run.
BuildLoaders ==
    /\ train_pc = "loaders"
    /\ IF RandomSamplerAccepts(SumLens(train_datasets))
       THEN /\ train_pc' = "epoch"
            /\ train_exc' = train_exc
       ELSE /\ train_pc' = "done"
            /\ train_exc' = "ValueError"
    /\ UNCHANGED <<servingVars, exportVars, checkpoint_file, checkpoint_num_classes, train_args, custom_dir, custom_train, custom_val,
                   output_dir_exists, train_datasets, val_datasets, epoch,
                   best_accuracy, training_history, checkpoint_saves, report>>

\* The comparison with >= in place of >.
ImprovesOrTies(val_acc, best) == val_acc >= best

\* A run that keeps the model of every epoch, the last one winning.
ImprovesAlways(val_acc, best) == TRUE

\* `if val_acc > best_accuracy`
Improves(val_acc, best) == val_acc > best

\* One turn of `for epoch in range(epochs)` up to "Save best model": the
\* training pass, the validation pass (val_acc is what the model got right),
\* the history entry and the comparison.  Each pass reads every sample of
\* its subset through CustomFoodDataset.__getitem__, whose Image.open raises
\* on a file that is no image; nothing catches it.  The two averages divide
\* by the number of batches and by the number of samples seen.
TrainEpoch ==
    /\ train_pc = "epoch"
    /\ epoch < train_args.epochs
    /\ IF \E i \in custom_train \cup custom_val :
             ~CustomFoodDatasetSamples(custom_dir)[i].decodable
       THEN /\ train_exc' = "UnidentifiedImageError"
            /\ train_pc' = "done"
            /\ UNCHANGED <<epoch, best_accuracy, training_history>>
       ELSE IF SumLens(train_datasets) = 0 \/ SumLens(val_datasets) = 0
       THEN /\ train_exc' = "ZeroDivisionError"
            /\ train_pc' = "done"
            /\ UNCHANGED <<epoch, best_accuracy, training_history>>
       ELSE \E val_acc \in Accuracies :
              /\ training_history' = Append(training_history, val_acc)
              /\ IF Improves(val_acc, best_accuracy)
                 THEN /\ best_accuracy' = val_acc
                      /\ train_pc' = "save"
                      /\ epoch' = epoch
                 ELSE /\ best_accuracy' = best_accuracy
                      /\ train_pc' = "epoch"
                      /\ epoch' = epoch + 1
              /\ train_exc' = train_exc
    /\ UNCHANGED <<servingVars, exportVars, checkpoint_file, checkpoint_num_classes, train_args, custom_dir, custom_train, custom_val,
                   output_dir_exists, train_datasets, val_datasets,
                   checkpoint_saves, report>>

\* The dict torch.save is given.
Checkpoint(val_acc, epoch_number, history) ==
    [accuracy |-> val_acc, epoch |-> epoch_number, training_history |-> history]

\* os.makedirs and the start of torch.save(..., output_path): the file at
\* output_path is opened for writing, which empties it; from here to the end
\* of the write it holds a part of the new checkpoint.
TorchSaveOpen ==
    /\ train_pc = "save"
    /\ output_dir_exists' = TRUE
    /\ checkpoint_file' = "partial"
    /\ checkpoint_num_classes' = num_classes
    /\ checkpoint_saves' =
         Append(checkpoint_saves, Checkpoint(best_accuracy, epoch + 1, training_history))
    /\ train_pc' = "saving"
    /\ UNCHANGED <<servingVars, exportVars, train_args, custom_dir, custom_train, custom_val, train_datasets, val_datasets,
                   epoch, best_accuracy, training_history, report, train_exc>>

\* The end of torch.save: the file is complete; scheduler.step() and the next
\* turn of the loop.
TorchSaveClose ==
    /\ train_pc = "saving"
    /\ checkpoint_file' = "valid"
    /\ checkpoint_num_classes' = checkpoint_num_classes
    /\ epoch' = epoch + 1
    /\ train_pc' = "epoch"
    /\ UNCHANGED <<servingVars, exportVars, train_args, custom_dir, custom_train, custom_val, output_dir_exists,
                   train_datasets, val_datasets, best_accuracy, training_history,
                   checkpoint_saves, report, train_exc>>

\* "Save training report": open(report_path, "w") next to output_path, whose
\* directory only a checkpoint save creates.
WriteReport ==
    /\ train_pc = "epoch"
    /\ epoch = train_args.epochs
    /\ IF output_dir_exists
       THEN /\ report' = [written |-> TRUE, best_accuracy |-> best_accuracy,
                          total_epochs |-> train_args.epochs,
                          history |-> training_history]
            /\ train_exc' = train_exc
       ELSE /\ report' = report
            /\ train_exc' = "FileNotFoundError"
    /\ train_pc' = "done"
    /\ UNCHANGED <<servingVars, exportVars, checkpoint_file, checkpoint_num_classes, train_args, custom_dir, custom_train, custom_val,
                   output_dir_exists, train_datasets, val_datasets, epoch,
                   best_accuracy, training_history, checkpoint_saves>>

\* The serving process calls load_model() (from predict_food) while the
\* training run goes on: it reads the file as it is at that moment.
LoadModelCall ==
    /\ load_calls < MaxLoadCalls
    /\ LET load == LoadModel
       IN  /\ model_loaded' = load.model_loaded
           /\ model' = load.model
           /\ model_num_classes' = load.num_classes
           /\ load_calls' = load_calls + 1
           /\ storage_reads' = storage_reads + (IF load.read THEN 1 ELSE 0)
           /\ last_read' = IF load.read THEN checkpoint_file ELSE last_read
           /\ local_exc' = load.exc
    /\ UNCHANGED <<settingsVars, trainVars, exportVars, tableVars, estimatorVars, pc, req, user_id,
                   validated, custom_prediction, used_source, image_url, save_exc,
                   next_item, response>>

\* The serving process is restarted: the module is imported again, with
\* _model = None and _model_loaded = False.  Files stay as they are.
ColdStart ==
    /\ load_calls > 0
    /\ model_loaded' = FALSE
    /\ model' = "None"
    /\ model_num_classes' = 0
    /\ load_calls' = 0
    /\ storage_reads' = 0
    /\ last_read' = "none"
    /\ local_exc' = ""
    /\ UNCHANGED <<settingsVars, trainVars, exportVars, tableVars, estimatorVars, pc, req, user_id,
                   validated, custom_prediction, used_source, image_url, save_exc,
                   next_item, response>>

\* The machine before a training run: the checkpoint of an earlier run or
\* none, a custom dataset directory or none.
InitTrain ==
    /\ use_custom_model = TRUE
    /\ supabase_storage_bucket = FALSE
    /\ checkpoint_file \in {"missing", "valid"}
    /\ checkpoint_num_classes = num_classes
    /\ model_loaded = FALSE
    /\ model = "None"
    /\ model_num_classes = 0
    /\ pc = "idle"
    /\ req = NoRequest
    /\ Fresh
    /\ NoLoads
    /\ train_pc = "idle"
    /\ train_args = TrainArgs(0, FALSE, FALSE)
    /\ custom_dir \in CustomDirs
    /\ output_dir_exists \in { b \in BOOLEAN : checkpoint_file = "valid" => b }
    /\ TrainFresh
    /\ NoExport

NextTrain ==
    \/ \E e \in 0..MaxEpochs, ic \in BOOLEAN, co \in BOOLEAN :
         TrainModelCall(TrainArgs(e, ic, co))
    \/ LoadDatasets
    \/ BuildLoaders
    \/ TrainEpoch
    \/ TorchSaveOpen
    \/ TorchSaveClose
    \/ WriteReport
    \/ LoadModelCall
    \/ ColdStart

SpecTrain == InitTrain /\ [][NextTrain]_vars

\* ----------------------------------- dataset_utils.download_supabase_dataset

\* An estimator item named Pizza.
PizzaJson == [EggsJson EXCEPT !.food_name = Name("Pizza")]

\* The rows of the training_dataset table an export can find: samples the
\* hybrid endpoint saved for an item named Pizza or Eggs, verified since by
\* the user or not.
StoredSamples ==
    { [SampleRow(ParseItem(json).item[1], PublicUrl) EXCEPT !.verified = v] :
        json \in {PizzaJson, EggsJson}, v \in BOOLEAN }

\* sample["food_name"].lower().replace(" ", "_") for the names of the model.
ClassNameOf(food_name) ==
    CASE food_name = "Pizza" -> "pizza"
      [] food_name = "Eggs" -> "eggs"
      [] food_name = "Toast" -> "toast"
      [] food_name = "Apple Pie" -> "apple_pie"
      [] OTHER -> "unknown"

\* query.eq("verified", True) when verified_only.
VerifiedRows(rows, only) ==
    LET Wanted(row) == ~only \/ row.verified
    IN  SelectSeq(rows, Wanted)

\* python -m app.training.dataset_utils download [--all]: get_dataset_samples
\* (which can raise), `if not samples: return`, os.makedirs(output_dir).
DownloadSupabaseDataset(only) ==
    /\ export_pc = "idle"
    /\ verified_only' = only
    /\ \/ /\ export_exc' = "APIError"
          /\ export_pc' = "done"
          /\ UNCHANGED <<samples, custom_dir>>
       \/ LET rows == VerifiedRows(training_dataset, only)
          IN  /\ samples' = rows
              /\ export_exc' = export_exc
              /\ IF rows = <<>>
                 THEN /\ export_pc' = "done"
                      /\ custom_dir' = custom_dir
                 ELSE /\ export_pc' = "loop"
                      /\ custom_dir' = [custom_dir EXCEPT !.exists = TRUE]
    /\ UNCHANGED <<servingVars, checkpoint_file, checkpoint_num_classes, train_pc, train_args, custom_train,
                   custom_val, output_dir_exists, train_datasets, val_datasets, epoch,
                   best_accuracy, training_history, checkpoint_saves, report,
                   train_exc, sample_index, warnings, metadata>>

\* One turn of `for i, sample in enumerate(samples)`: the class directory,
\* then inside try: the download, and for status 200 the decoding and the
\* save as JPEG.  Another status writes nothing; an exception (the request,
\* Image.open, img.save) is logged as a warning.  The loop goes on.
DownloadSample ==
    /\ export_pc = "loop"
    /\ sample_index <= Len(samples)
    /\ \/ /\ custom_dir' =
               [custom_dir EXCEPT !.files =
                   Append(@, ImageFile(ClassNameOf(samples[sample_index].food_name), TRUE))]
          /\ warnings' = warnings
       \/ /\ custom_dir' = custom_dir
          /\ warnings' = warnings
       \/ /\ custom_dir' = custom_dir
          /\ warnings' = warnings + 1
    /\ sample_index' = sample_index + 1
    /\ UNCHANGED <<servingVars, checkpoint_file, checkpoint_num_classes, train_pc, train_args, custom_train,
                   custom_val, output_dir_exists, train_datasets, val_datasets, epoch,
                   best_accuracy, training_history, checkpoint_saves, report,
                   train_exc, export_pc, verified_only, samples, metadata, export_exc>>

\* "Save metadata" after the loop.
WriteMetadata ==
    /\ export_pc = "loop"
    /\ sample_index > Len(samples)
    /\ metadata' = TRUE
    /\ export_pc' = "done"
    /\ UNCHANGED <<servingVars, checkpoint_file, checkpoint_num_classes, trainVars, verified_only, samples,
                   sample_index, warnings, export_exc>>

\* What datasets/custom holds before an export: nothing, or a file put
\* there by hand that is an image or is none.
DirsBeforeExport ==
    { [exists |-> FALSE, files |-> <<>>],
      [exists |-> TRUE, files |-> <<>>],
      [exists |-> TRUE, files |-> <<PizzaFile>>],
      [exists |-> TRUE, files |-> <<ImageFile("pizza", FALSE)>>] }

\* The machine before an export and a training run on what it wrote.
InitExport ==
    /\ use_custom_model = TRUE
    /\ supabase_storage_bucket = TRUE
    /\ checkpoint_file = "missing"
    /\ checkpoint_num_classes = num_classes
    /\ model_loaded = FALSE
    /\ model = "None"
    /\ model_num_classes = 0
    /\ pc = "idle"
    /\ req = NoRequest
    /\ user_id = FALSE
    /\ validated = FALSE
    /\ custom_prediction = NoPrediction
    /\ used_source = "openai"
    /\ local_exc = ""
    /\ estimator_calls = 0
    /\ raw_text = NoneText
    /\ parsed = NoParse
    /\ ai_result = NoAIResult
    /\ image_url = PyNone
    /\ save_exc = ""
    /\ next_item = 1
    /\ food_logs = <<>>
    /\ food_items = <<>>
    /\ training_dataset \in SeqsUpTo(StoredSamples, MaxSamples)
    /\ response = NoResponse
    /\ NoLoads
    /\ train_pc = "idle"
    /\ train_args = TrainArgs(0, FALSE, FALSE)
    /\ custom_dir \in DirsBeforeExport
    /\ output_dir_exists = FALSE
    /\ TrainFresh
    /\ NoExport

\* The export, then a training run of one epoch.
NextExport ==
    \/ \E only \in BOOLEAN : DownloadSupabaseDataset(only)
    \/ DownloadSample
    \/ WriteMetadata
    \/ /\ export_pc = "done"
       /\ \E ic \in BOOLEAN, co \in BOOLEAN : TrainModelCall(TrainArgs(1, ic, co))
    \/ LoadDatasets
    \/ BuildLoaders
    \/ TrainEpoch
    \/ TorchSaveOpen
    \/ TorchSaveClose
    \/ WriteReport

SpecExport == InitExport /\ [][NextExport]_vars

\* ------------------------------------------------------------- properties

RecognitionEndpoints == {"image", "text", "hybrid"}

\* The estimator stage of the request raised (the API call, the parser or
\* the result's validation).
EstimatorFailed == ai_result.exc \notin {"", "unset"}

\* The items create_food_log was given.
LoggedItems == IF HasResult(ai_result) THEN ai_result.food_items ELSE req.manual_items

\* C1: every AIRecognitionResult and every food_logs row has each of its four
\* totals equal to the sum of that field over its food items (0 for no item);
\* the items (100,8,1,7) and (120,3,22,2) give 220/11/23/9.
C1_TotalsAreSums ==
    /\ HasResult(ai_result) =>
         /\ ai_result.total_calories = Sum(ai_result.food_items, "calories")
         /\ ai_result.total_protein = Sum(ai_result.food_items, "protein")
         /\ ai_result.total_carbs = Sum(ai_result.food_items, "carbs")
         /\ ai_result.total_fat = Sum(ai_result.food_items, "fat")
    /\ \A i \in 1..Len(food_logs) :
         /\ food_logs[i].total_calories = Sum(LoggedItems, "calories")
         /\ food_logs[i].total_protein = Sum(LoggedItems, "protein")
         /\ food_logs[i].total_carbs = Sum(LoggedItems, "carbs")
         /\ food_logs[i].total_fat = Sum(LoggedItems, "fat")
         /\ food_items # <<>> =>
              /\ food_logs[i].total_calories = Sum(food_items, "calories")
              /\ food_logs[i].total_protein = Sum(food_items, "protein")
              /\ food_logs[i].total_carbs = Sum(food_items, "carbs")
              /\ food_logs[i].total_fat = Sum(food_items, "fat")
         /\ LoggedItems = <<>> => food_logs[i].total_calories = 0
    /\ (HasResult(ai_result) /\ Cleaned(raw_text.toks) = <<Value(EggsAndToastDoc)>>) =>
         /\ ai_result.total_calories = 220
         /\ ai_result.total_protein = 11
         /\ ai_result.total_carbs = 23
         /\ ai_result.total_fat = 9

\* The text endpoint has logged the "2 eggs and toast" result with both items.
C1_Witness ==
    /\ req.endpoint = "text"
    /\ raw_text = Text(<<Value(EggsAndToastDoc)>>)
    /\ Len(food_logs) = 1
    /\ food_logs[1].total_calories = 220
    /\ Len(food_items) = 2

\* C2: a hybrid_analyze call that returns has source "hybrid" exactly when the
\* custom model is enabled, a prediction was produced and its confidence is at
\* least the threshold; in every other case the source is "openai".
C2_ProvenanceRule ==
    (req.endpoint = "hybrid" /\ HasResult(ai_result)) =>
        /\ ai_result.source =
             IF /\ use_custom_model
                /\ custom_prediction.some
                /\ custom_prediction.confidence >= custom_model_confidence_threshold
             THEN "hybrid"
             ELSE "openai"
        /\ used_source = ai_result.source

\* A hybrid result whose local confidence is exactly the threshold.
C2_Witness ==
    /\ req.endpoint = "hybrid"
    /\ HasResult(ai_result)
    /\ custom_prediction.some
    /\ custom_prediction.confidence = custom_model_confidence_threshold
    /\ ai_result.source = "hybrid"

C4_LocalFailureAbsorbed ==
    (req.endpoint = "hybrid" /\ local_exc # "" /\ pc = "done") =>
        /\ estimator_calls = 1
        /\ ~EstimatorFailed =>
             /\ response = ResultResponse
             /\ ai_result.source = "openai"
             /\ ~custom_prediction.some

\* C5: every hybrid request that passes input validation calls the estimator
\* exactly once, whatever the flag and the local stage's outcome.
C5_EstimatorCalledOnce ==
    (req.endpoint = "hybrid" /\ validated /\ pc = "done") => estimator_calls = 1

\* C6: when the estimator stage fails, the request ends with HTTP 500 and no
\* recognition result, and it writes no food log, no food item and no
\* training sample.
C6_EstimatorFailureIsFatal ==
    (req.endpoint \in RecognitionEndpoints /\ EstimatorFailed) =>
        /\ pc = "done"
        /\ response.status = 500
        /\ ~response.has_result
        /\ food_logs = <<>>
        /\ food_items = <<>>
        /\ training_dataset = <<>>
        /\ image_url.is_none

\* The API call of a hybrid request that asked for a log has failed.
C6_Witness ==
    /\ req.endpoint = "hybrid"
    /\ ai_result.exc = "APIError"
    /\ SaveWanted
    /\ pc = "done"

\* C7: _parse_response never raises, whatever the response text.
C7_ParserNeverRaises ==
    pc \in {"analyze", "analyzed"} => parsed.exc = ""

\* Neither the direct parse nor the extraction of an object yields JSON.
NothingParsable(text) ==
    /\ ~text.is_none
    /\ LET cleaned == Cleaned(text.toks)
           match == SearchObject(cleaned)
       IN  /\ ~JsonLoads(cleaned).ok
           /\ ~match.found \/ ~JsonLoads(match.toks).ok

\* C8: a response from which no JSON can be parsed gives a result with no
\* item, overall confidence 0 and all four totals 0.
C8_UnparsableGivesEmptyResult ==
    (pc = "analyzed" /\ NothingParsable(raw_text)) =>
        /\ ai_result.exc = ""
        /\ ai_result.food_items = <<>>
        /\ ai_result.ai_confidence = 0
        /\ ai_result.total_calories = 0
        /\ ai_result.total_protein = 0
        /\ ai_result.total_carbs = 0
        /\ ai_result.total_fat = 0

\* C9: a request whose result has overall confidence below 80, or that has no
\* image URL, has written no training sample.
C9_NoSampleBelowBarOrWithoutImage ==
    (ai_result.ai_confidence < DatasetConfidenceBar \/ image_url.is_none) =>
        training_dataset = <<>>

\* A hybrid request with an uploaded image, a created log and confidence 79
\* has ended.
C9_Witness ==
    /\ req.endpoint = "hybrid"
    /\ pc = "done"
    /\ ai_result.ai_confidence = 79
    /\ ~image_url.is_none
    /\ Len(food_logs) = 1
    /\ Len(food_items) = 2
    /\ save_exc = ""

\* The hybrid request has a result above the bar and an image URL.
AboveBarWithImage ==
    /\ req.endpoint = "hybrid"
    /\ HasResult(ai_result)
    /\ ai_result.ai_confidence > DatasetConfidenceBar
    /\ ~image_url.is_none

\* The i-th training row is the sample of the i-th item of the result.
IsSampleOfItem(i) ==
    /\ training_dataset[i].image_url = image_url.s
    /\ training_dataset[i].food_name = ai_result.food_items[i].food_name
    /\ training_dataset[i].calories = ai_result.food_items[i].calories
    /\ training_dataset[i].protein = ai_result.food_items[i].protein
    /\ training_dataset[i].carbs = ai_result.food_items[i].carbs
    /\ training_dataset[i].fat = ai_result.food_items[i].fat
    /\ training_dataset[i].verified = FALSE

\* C10 as stated: a completed result above the bar with an image URL has
\* exactly one training sample per food item, never a partial subset.
C10_OneSamplePerItem ==
    (AboveBarWithImage /\ pc = "done") =>
        /\ Len(training_dataset) = Len(ai_result.food_items)
        /\ \A i \in 1..Len(training_dataset) : IsSampleOfItem(i)

\* C10 amended: above the bar and with an image URL, the training rows are
\* the samples of the first items of the result, in order; they are all n of
\* them when the request ends with no persistence failure, and none when the
\* food log or its items could not be inserted.
C10_OneSamplePerItemUnlessSaveFails ==
    AboveBarWithImage =>
        /\ Len(training_dataset) <= Len(ai_result.food_items)
        /\ \A i \in 1..Len(training_dataset) : IsSampleOfItem(i)
        /\ (pc = "done" /\ save_exc = "") =>
             Len(training_dataset) = Len(ai_result.food_items)
        /\ (food_logs = <<>> \/ Len(food_items) < Len(ai_result.food_items)) =>
             training_dataset = <<>>

\* A two-item result above the bar has been answered with both samples saved.
C10_Witness ==
    /\ AboveBarWithImage
    /\ pc = "done"
    /\ save_exc = ""
    /\ Len(ai_result.food_items) = 2
    /\ Len(training_dataset) = 2

\* The accuracies of the checkpoints the run has saved, in order.
SavedAccuracies == [i \in 1..Len(checkpoint_saves) |-> checkpoint_saves[i].accuracy]

\* C11: every checkpoint write of a training run was made at an epoch whose
\* validation accuracy is strictly greater than that of every earlier epoch
\* (an equal or lower accuracy writes nothing); the validation sequence
\* 40, 55, 50, 60 gives exactly three writes, at 40, 55 and 60.
C11_CheckpointOnlyOnStrictImprovement ==
    /\ \A i \in 1..Len(checkpoint_saves) :
         LET saved == checkpoint_saves[i]
         IN  /\ saved.epoch \in 1..Len(training_history)
             /\ training_history[saved.epoch] = saved.accuracy
             /\ \A j \in 1..(saved.epoch - 1) : training_history[j] < saved.accuracy
    /\ (training_history = <<40, 55, 50, 60>> /\ train_pc # "save") =>
         SavedAccuracies = <<40, 55, 60>>

\* The run over the validation sequence 40, 55, 50, 60 has ended with its
\* report written and three checkpoint writes.
C11_Witness ==
    /\ train_pc = "done"
    /\ report.written
    /\ training_history = <<40, 55, 50, 60>>
    /\ Len(checkpoint_saves) = 3
    /\ checkpoint_file = "valid"

\* C12: within one process the checkpoint is read from storage at most once,
\* whatever the sequence of load_model / predict_food calls, a first read
\* that failed included.
C12_CheckpointLoadedAtMostOnce == storage_reads <= 1

\* C13: with no checkpoint file, predict_food raises nothing and returns no
\* prediction, on the first call and on every later one, and the hybrid
\* request ends with the estimator's result, source "openai".
C13_NoCheckpointMeansNoPrediction ==
    (checkpoint_file = "missing" /\ req.endpoint = "hybrid" /\ use_custom_model) =>
        /\ local_exc = ""
        /\ ~custom_prediction.some
        /\ used_source = "openai"
        /\ storage_reads = 0
        /\ load_calls >= 1 => (model_loaded /\ model = "None")
        /\ HasResult(ai_result) => ai_result.source = "openai"
        /\ (pc = "done" /\ validated /\ ~EstimatorFailed) => response = ResultResponse

\* The second hybrid request of a process without a checkpoint file has been
\* answered with the estimator's result.
C13_Witness ==
    /\ checkpoint_file = "missing"
    /\ use_custom_model
    /\ req.endpoint = "hybrid"
    /\ load_calls = 2
    /\ pc = "done"
    /\ response = ResultResponse
    /\ ai_result.source = "openai"
    /\ ~custom_prediction.some

\* C14: a load_model call made while a training run writes the checkpoint
\* never reads a file that is written in part.
C14_LoadNeverSeesPartialFile == last_read # "partial"

\* C15: every prediction predict_food returned has its confidence in [0, 1]
\* (0..100 hundredths), and every result the estimator path returned
\* (analyze_food_image, analyze_food_text, hybrid_analyze) has its overall
\* confidence in [0, 100], whatever the estimator answered.
C15_ConfidencesInRange ==
    /\ custom_prediction.some =>
         (custom_prediction.confidence >= 0 /\ custom_prediction.confidence <= 100)
    /\ HasResult(ai_result) =>
         /\ ai_result.ai_confidence >= ConfidenceMin
         /\ ai_result.ai_confidence <= ConfidenceMax
    /\ (pc = "done" /\ response.has_result /\ req.endpoint \in RecognitionEndpoints) =>
         /\ HasResult(ai_result)
         /\ ai_result.ai_confidence \in ConfidenceMin..ConfidenceMax

\* A hybrid request with a local prediction has been answered with the
\* estimator's result.
C15_Witness ==
    /\ req.endpoint = "hybrid"
    /\ pc = "done"
    /\ response = ResultResponse
    /\ custom_prediction.some
    /\ custom_prediction.confidence = 90
    /\ HasResult(ai_result)
    /\ ai_result.ai_confidence = 90

\* C16: with image storage disabled, an image or hybrid request that asks for
\* a log (save_log, a user, a meal type) is answered with its result and its
\* food log is created without an image reference, unless the insert itself
\* fails; the upload raises nothing and no training sample is written.
C16_StorageDisabledDegradesToNoOp ==
    (/\ ~supabase_storage_bucket
     /\ req.endpoint \in {"image", "hybrid"}
     /\ SaveWanted
     /\ HasResult(ai_result)) =>
        /\ image_url.is_none
        /\ save_exc # "StorageError"
        /\ training_dataset = <<>>
        /\ \A i \in 1..Len(food_logs) : food_logs[i].image_url.is_none
        /\ pc = "done" =>
             /\ response = ResultResponse
             /\ save_exc = "" =>
                  /\ Len(food_logs) = 1
                  /\ Len(food_items) = Len(ai_result.food_items)

\* A hybrid request with confidence 90 and two items has been answered and
\* logged while storage is disabled.
C16_Witness ==
    /\ ~supabase_storage_bucket
    /\ req.endpoint = "hybrid"
    /\ SaveWanted
    /\ pc = "done"
    /\ response = ResultResponse
    /\ ai_result.ai_confidence = 90
    /\ Len(food_logs) = 1
    /\ food_logs[1].image_url.is_none
    /\ Len(food_items) = 2
    /\ training_dataset = <<>>

\* The JSON document _parse_response reads out of the text: the cleaned text
\* itself, or the span the pattern search finds in it.
DocRead(text) ==
    LET cleaned == Cleaned(text.toks)
        direct == JsonLoads(cleaned)
        match == SearchObject(cleaned)
    IN  IF direct.ok THEN direct
        ELSE IF match.found THEN JsonLoads(match.toks)
        ELSE [ok |-> FALSE, doc |-> JsonScalar]

\* The parser has returned the items of a JSON object it read.
ParsedAnObject ==
    /\ pc \in {"analyze", "analyzed"}
    /\ ~raw_text.is_none
    /\ parsed.exc = ""
    /\ DocRead(raw_text).ok
    /\ DocRead(raw_text).doc.kind = "obj"

\* Every absent field of the document has its default in the parsed result:
\* 0 for a macro, conf for a confidence, "Unknown" for the food name.
DefaultsApplied(conf) ==
    LET doc == DocRead(raw_text).doc
    IN  /\ Len(parsed.food_items) = Len(doc.food_items.items)
        /\ \A i \in 1..Len(parsed.food_items) :
             LET src == doc.food_items.items[i]
                 out == parsed.food_items[i]
             IN  /\ src.calories = Absent => out.calories = 0
                 /\ src.protein = Absent => out.protein = 0
                 /\ src.carbs = Absent => out.carbs = 0
                 /\ src.fat = Absent => out.fat = 0
                 /\ src.confidence = Absent => out.confidence = conf
                 /\ src.food_name = NoName => out.food_name = "Unknown"
        /\ doc.overall_confidence = Absent => parsed.overall_confidence = conf

\* C17 as stated: in a parsed response every absent numeric field is 0 (the
\* four macros, the item confidence, the overall confidence) and an absent
\* food name is "Unknown".
C17_AbsentFieldsDefaultToZero == ParsedAnObject => DefaultsApplied(0)

\* C17 amended: an absent macro is 0, an absent item confidence or overall
\* confidence is 50, an absent food name is "Unknown".
C17_AbsentConfidenceDefaultsToFifty == ParsedAnObject => DefaultsApplied(DefaultConfidence)

\* The response {"food_items": [{}]} has been parsed: one item named Unknown
\* with macros 0 and confidence 50, overall confidence 50.
C17_Witness ==
    /\ pc = "analyzed"
    /\ raw_text = Text(<<Value(JsonObject(ItemsList(<<BareJson>>), Absent))>>)
    /\ parsed.exc = ""
    /\ Len(parsed.food_items) = 1
    /\ parsed.food_items[1].food_name = "Unknown"
    /\ parsed.food_items[1].calories = 0
    /\ parsed.food_items[1].fat = 0
    /\ parsed.food_items[1].confidence = 50
    /\ parsed.overall_confidence = 50
    /\ ai_result.ai_confidence = 50

\* The text is one JSON object that parses on its own, with text before it
\* that holds no brace and any text after it: fences, a json tag, prose.  pos
\* is the object's place among the tokens.
WrapsObjectAt(toks, pos) ==
    /\ pos \in 1..Len(toks)
    /\ toks[pos].t = "value"
    /\ toks[pos].d.kind = "obj"
    /\ ParseData(toks[pos].d).exc = ""
    /\ \A i \in 1..(pos - 1) : toks[i] \in {WS, Fence, JsonTag, Prose}

\* C18: for a JSON object J that parses on its own, the parser returns J's
\* items and overall confidence also when J stands in code fences (with or
\* without the json tag) and when prose stands before and/or after J: J, the
\* first balanced object of the text, is what it reads.
C18_SameResultInFencesAndProse ==
    (pc \in {"analyze", "analyzed"} /\ ~raw_text.is_none) =>
        \A pos \in 1..Len(raw_text.toks) :
            WrapsObjectAt(raw_text.toks, pos) =>
                parsed = ParseData(raw_text.toks[pos].d)

\* The hybrid request has a result whose confidence is the bar itself, and an
\* image URL.
AtBarWithImage ==
    /\ req.endpoint = "hybrid"
    /\ HasResult(ai_result)
    /\ ai_result.ai_confidence = DatasetConfidenceBar
    /\ ~image_url.is_none

\* C19 as stated: the bar is strict, a result whose confidence is exactly 80
\* writes no training sample even with an image URL.
C19_NoSampleAtTheBar == AtBarWithImage => training_dataset = <<>>

\* C19 amended: the bar is inclusive.  Training samples are written only for
\* a confidence of at least 80 with an image URL, and a result at exactly 80
\* with an image URL has one sample per item once the request has ended
\* without a persistence failure.
C19_BarIsInclusive ==
    /\ training_dataset # <<>> =>
         /\ ai_result.ai_confidence >= DatasetConfidenceBar
         /\ ~image_url.is_none
    /\ (AtBarWithImage /\ pc = "done" /\ save_exc = "" /\ SaveWanted) =>
         Len(training_dataset) = Len(ai_result.food_items)

\* A two-item result with confidence exactly 80 has been answered with both
\* samples written.
C19_Witness ==
    /\ AtBarWithImage
    /\ pc = "done"
    /\ save_exc = ""
    /\ Len(ai_result.food_items) = 2
    /\ Len(training_dataset) = 2

\* The sources train_model was told to use yield no training sample: only
\* the custom dataset, and its directory is missing, holds no image, or holds
\* so few that int(0.8 * n) is 0.
NoTrainingSamples ==
    /\ train_args.custom_only
    /\ TrainSize(CustomFoodDatasetLen(custom_dir)) = 0

\* C20: the epoch loop is never entered with an empty training set; a run
\* whose sources yield no training sample (custom directory missing, without
\* images, or too small for a training share) ends before any epoch.
C20_NoEpochOnEmptyTrainingSet ==
    /\ train_pc \in {"epoch", "save", "saving"} => SumLens(train_datasets) > 0
    /\ training_history # <<>> => SumLens(train_datasets) > 0
    /\ (NoTrainingSamples /\ train_pc \notin {"idle", "datasets"}) =>
         /\ train_pc \in {"loaders", "done"}
         /\ training_history = <<>>
         /\ checkpoint_saves = <<>>
         /\ ~report.written

\* A custom-only run over a directory of one image has ended before any
\* epoch: the 80% share is empty and the loader's sampler refused it.
C20_Witness ==
    /\ train_pc = "done"
    /\ train_args.custom_only
    /\ train_args.epochs > 0
    /\ custom_dir = [exists |-> TRUE, files |-> <<PizzaFile>>]
    /\ train_datasets = <<0>>
    /\ train_exc = "ValueError"
    /\ training_history = <<>>

\* The run uses the custom dataset: it was asked for and has an image.
CustomDatasetUsed ==
    /\ train_pc \notin {"idle", "datasets"}
    /\ train_args.include_custom \/ train_args.custom_only
    /\ CustomFoodDatasetLen(custom_dir) > 0
    /\ train_exc # "RuntimeError"

\* C21: the custom corpus of n samples is split into a training subset of
\* floor(0.8 * n) samples and a validation subset of the other n - floor(0.8 * n)
\* samples, and the two are disjoint: no sample trained on is validated on.
C21_SplitIsDisjoint ==
    CustomDatasetUsed =>
        LET n == CustomFoodDatasetLen(custom_dir)
        IN  /\ Cardinality(custom_train) = TrainSize(n)
            /\ Cardinality(custom_val) = n - TrainSize(n)
            /\ custom_train \cap custom_val = {}

\* The export has gone through its loop.
ExportFinished == export_pc = "done" /\ export_exc = "" /\ samples # <<>>

\* C22: an export visits every sample whatever happened to the earlier ones
\* and writes its metadata, and a training run is never ended by an image
\* it could not decode.
C22_BadImageNeverAbortsTheBatch ==
    /\ ExportFinished => (sample_index = Len(samples) + 1 /\ metadata)
    /\ train_exc # "UnidentifiedImageError"

\* The training run reads datasets/custom and got past building its datasets.
CustomCorpusEnabled ==
    /\ train_pc \notin {"idle", "datasets"}
    /\ train_args.include_custom \/ train_args.custom_only

\* C24: every image the export wrote, whatever its label, is a sample of
\* the custom dataset of a training run with the custom corpus enabled.
C24_FreeTextLabelsAreTrainedOn ==
    (ExportFinished /\ CustomCorpusEnabled) =>
        CustomFoodDatasetLen(custom_dir) = Len(custom_dir.files)

\* C23: a recognition request whose save block failed (the upload, the
\* food log or a dataset sample raised) is still answered with the result.
C23_SaveFailureNeverFailsRecognition ==
    (pc = "done" /\ save_exc # "") =>
        /\ req.endpoint \in {"image", "text", "hybrid"}
        /\ response = ResultResponse
        /\ ai_result.exc = ""

\* A hybrid request that created its food log, lost its dataset sample to an
\* exception and was answered with the result.
C23_Witness ==
    /\ pc = "done"
    /\ req.endpoint = "hybrid"
    /\ save_exc = "APIError"
    /\ food_logs # <<>>
    /\ food_items # <<>>
    /\ training_dataset = <<>>
    /\ response = ResultResponse

\* C25: once load_model has cached "no model", the cache holds no model
\* until the process is restarted, and every later call in the process
\* returns None without an error and without reading the checkpoint file,
\* whatever training has written since.
C25_UnavailableUntilColdStart ==
    [][(model_loaded /\ model = "None") =>
          /\ model' = "None"
          /\ load_calls' = load_calls + 1 =>
                /\ model_loaded'
                /\ local_exc' = ""
                /\ storage_reads' = storage_reads
                /\ last_read' = last_read]_vars

\* A second call of the process still finds no model although a training
\* run has written a whole checkpoint since the first.
C25_Witness ==
    /\ load_calls = 2
    /\ model_loaded
    /\ model = "None"
    /\ storage_reads = 0
    /\ checkpoint_file = "valid"
    /\ checkpoint_saves # <<>>

\* C26: training samples are written only by a hybrid request, after its
\* food log and the log's items were written, and only when save_log, a
\* user id (sent or resolved) and a meal type are present; a recognition
\* request that lacks one of the three writes no food log and no sample.
C26_SamplesOnlyAfterTheLog ==
    /\ training_dataset # <<>> =>
          /\ req.endpoint = "hybrid"
          /\ Len(food_logs) = 1
          /\ Len(food_items) = Len(ai_result.food_items)
          /\ req.save_log
          /\ req.meal_type
          /\ user_id
          /\ req.user_id \/ req.auth_id
    /\ (req.endpoint \in {"image", "text", "hybrid"}
            /\ ~(req.save_log /\ req.meal_type /\ user_id)) =>
          /\ food_logs = <<>>
          /\ training_dataset = <<>>

\* A hybrid request without a user id, whose user was resolved from the
\* auth id, has written its log, both items and both samples.
C26_Witness ==
    /\ pc = "done"
    /\ req.endpoint = "hybrid"
    /\ ~req.user_id
    /\ req.auth_id
    /\ user_id
    /\ Len(food_logs) = 1
    /\ Len(food_items) = 2
    /\ Len(training_dataset) = 2

\* The request in progress has an input its endpoint must reject: a file
\* that is no image (image, hybrid), an image over 10MB (image), a blank
\* description (text).
InputRejectable ==
    \/ req.endpoint \in {"image", "hybrid"} /\ ~req.content_type_ok
    \/ req.endpoint = "image" /\ req.too_large
    \/ req.endpoint = "text" /\ req.description_blank

\* C27: a request with an input its endpoint must reject never reaches the
\* estimator or the local classifier and writes no log, item or sample;
\* unless the user lookup before the check failed, it ends with HTTP 400.
C27_RejectedBeforeAnyCall ==
    /\ [](InputRejectable =>
            /\ pc \in {"resolve", "validate", "done"}
            /\ estimator_calls = 0
            /\ custom_prediction = NoPrediction
            /\ food_logs = <<>> /\ food_items = <<>> /\ training_dataset = <<>>
            /\ (pc = "done" /\ response # UnhandledResponse) =>
                   response = BadRequestResponse)
    /\ [][InputRejectable =>
            /\ load_calls' = load_calls
            /\ estimator_calls' \in {estimator_calls, 0}]_vars

\* An image request over 10MB that asked for a log, with a resolved user
\* and a meal type, was answered 400.
C27_Witness ==
    /\ pc = "done"
    /\ req.endpoint = "image"
    /\ req.content_type_ok
    /\ req.too_large
    /\ req.save_log /\ req.meal_type /\ user_id
    /\ response = BadRequestResponse

\* The largest of 0 and the validation accuracies of a history.
BestOf(history) ==
    CHOOSE best \in {0} \cup { history[i] : i \in 1..Len(history) } :
        \A i \in 1..Len(history) : history[i] <= best

\* The run stands between two epochs or has ended without an exception.
BetweenEpochs == train_pc \in {"epoch", "done"} /\ train_exc = ""

\* C28: best_accuracy never decreases; after every epoch it is the largest
\* validation accuracy so far and, when the run has written a checkpoint,
\* the accuracy stored in the last one written; a report, once written, has
\* that best accuracy and one history entry per epoch of the run.
C28_BestAccuracyIsTheRunningMaximum ==
    /\ [][best_accuracy' >= best_accuracy]_vars
    /\ [](BetweenEpochs =>
            /\ best_accuracy = BestOf(training_history)
            /\ checkpoint_saves # <<>> =>
                 checkpoint_saves[Len(checkpoint_saves)].accuracy =
                     BestOf(training_history))
    /\ [](report.written =>
            /\ train_pc = "done"
            /\ report.best_accuracy = BestOf(training_history)
            /\ checkpoint_saves # <<>> =>
                 report.best_accuracy =
                     checkpoint_saves[Len(checkpoint_saves)].accuracy
            /\ Len(report.history) = train_args.epochs
            /\ report.history = training_history)

\* A run of three epochs whose accuracy fell after the first has written one
\* checkpoint and its report.
C28_Witness ==
    /\ train_pc = "done"
    /\ report.written
    /\ training_history = <<55, 40, 50>>
    /\ SavedAccuracies = <<55>>
    /\ report.best_accuracy = 55

\* The titles of the labels of FOOD101_CLASSES.
LabelTitles == { Title(FOOD101_CLASSES[i]) : i \in 1..Len(FOOD101_CLASSES) }

\* C29: whatever number of classes the loaded checkpoint declares, the label
\* lookup of predict_food never fails on the predicted index, and a
\* prediction names a label of the list.
C29_PredictedIndexInLabelList ==
    /\ local_exc # "IndexError"
    /\ custom_prediction.some => custom_prediction.food_name \in LabelTitles

\* The items create_food_log is given by the request in progress.
GivenItems ==
    IF req.endpoint = "manual" THEN req.manual_items ELSE ai_result.food_items

\* create_food_log has returned to the request in progress.
LogCreated ==
    \/ req.endpoint = "manual" /\ response = CreatedResponse
    \/ req.endpoint \in {"image", "text", "hybrid"}
          /\ pc \in {"samples", "respond", "done"}
          /\ food_logs # <<>>
          /\ (save_exc = "" \/ training_dataset # <<>> \/ next_item > 1)

\* C30: at every point each item row carries the id of a log row that is
\* already there, a request writes at most one log row, and once
\* create_food_log has returned there is one log row and one item row per
\* item given, none for an empty list.
C30_LogRowBeforeItsItems ==
    /\ \A i \in 1..Len(food_items) : food_items[i].food_log_id \in 1..Len(food_logs)
    /\ Len(food_logs) <= 1
    /\ food_items # <<>> => Len(food_items) = Len(GivenItems)
    /\ LogCreated =>
          /\ Len(food_logs) = 1
          /\ Len(food_items) = Len(GivenItems)
          /\ \A i \in 1..Len(food_items) :
               food_items[i].food_name = GivenItems[i].food_name

\* A manual entry of two items was answered 201 with its log row and both
\* item rows.
C30_Witness ==
    /\ req.endpoint = "manual"
    /\ pc = "done"
    /\ response = CreatedResponse
    /\ Len(req.manual_items) = 2
    /\ Len(food_logs) = 1
    /\ Len(food_items) = 2
    /\ food_items[2].food_log_id = 1

====
